---- MODULE Spec2Model ----
(***************************************************************************)
(* Problem-solving pipeline of the AI Problem Solver server:               *)
(*   - the quota methods of the User model (server/models/User.js),        *)
(*   - the admission middleware (server/middleware/auth.js),               *)
(*   - the POST /api/problems handler (server/routes/problems.js),         *)
(*   - the outcome of CodeExecutor.executeCode (services/codeExecutor.js). *)
(* Documents follow Mongoose: a handler works on an in-memory copy of a    *)
(* stored document, and save() writes the paths whose value differs from   *)
(* the copy's last synchronised value.  Every awaited storage or provider  *)
(* call may reject.                                                        *)
(***************************************************************************)
EXTENDS Integers, Sequences, FiniteSets, TLC

(* ------------------------------ bounds -------------------------------- *)

\* users in the store
NumUsers == 2
\* submission requests that may arrive
MaxRuns == 2
\* largest queryLimit a stored user of the pipeline specification starts with
MaxLimit == 1
\* largest queryLimit of the quota specification's user
MaxQuotaLimit == 3
\* clock ticks per calendar month
TicksPerMonth == 2
\* cap on the counters of the quota specification
MaxQueries == 4
\* most fetches a sandbox of the executor specification answers with a busy status
MaxBusy == 12
\* longest run of blanks inside a code text of the executor specification
MaxSpaces == 2
\* most GET and bookmark requests of the routes specification
MaxRequests == 1
\* most parts a raw answer of the AI specification is made of
MaxParts == 3
\* largest status id the sandbox answers formatResult is handed carry
MaxStatusId == 16

\* Date.getMonth() ranges over 0..11
MonthsPerYear == 12

\* the quota specification's clock covers a little more than one year
MaxNow == TicksPerMonth * (MonthsPerYear + 1) + 1

\* the pipeline specification's clock starts on the last tick of a month and
\* reaches the first tick of the next one
FirstPipeNow == TicksPerMonth - 1
MaxPipeNow == TicksPerMonth

Users == 1..NumUsers
Runs == 1..MaxRuns

(* ------------------------------ dates --------------------------------- *)

\* Date.prototype.getMonth of a clock value
getMonth(t) == (t \div TicksPerMonth) % MonthsPerYear

\* Date.prototype.getFullYear of a clock value (years since the epoch)
getFullYear(t) == t \div (TicksPerMonth * MonthsPerYear)

(* --------------------------- User documents --------------------------- *)

\* resetMonthlyQueries comparing the month alone (the year test dropped)
resetMonthlyQueries_monthOnly(u, n) ==
  IF getMonth(n) # getMonth(u.lastResetDate)
  THEN [u EXCEPT !.monthlyQueries = 0, !.lastResetDate = n]
  ELSE u

\* resetMonthlyQueries stamping lastResetDate on every call
resetMonthlyQueries_stamping(u, n) ==
  IF getMonth(n) # getMonth(u.lastResetDate)
       \/ getFullYear(n) # getFullYear(u.lastResetDate)
  THEN [u EXCEPT !.monthlyQueries = 0, !.lastResetDate = n]
  ELSE [u EXCEPT !.lastResetDate = n]

\* userSchema.methods.resetMonthlyQueries, n = new Date()
resetMonthlyQueries(u, n) ==
  IF getMonth(n) # getMonth(u.lastResetDate)
       \/ getFullYear(n) # getFullYear(u.lastResetDate)
  THEN [u EXCEPT !.monthlyQueries = 0, !.lastResetDate = n]
  ELSE u

\* canMakeQuery admitting at the limit (monthlyQueries <= queryLimit)
canMakeQuery_atLimit(u, n) ==
  LET v == resetMonthlyQueries(u, n)
  IN  [doc |-> v, ret |-> v.monthlyQueries <= v.queryLimit]

\* canMakeQuery keeping one query in reserve (monthlyQueries + 1 < queryLimit)
canMakeQuery_reserving(u, n) ==
  LET v == resetMonthlyQueries(u, n)
  IN  [doc |-> v, ret |-> v.monthlyQueries + 1 < v.queryLimit]

\* canMakeQuery taking a limit of 0 for "no limit"
canMakeQuery_zeroUnlimited(u, n) ==
  LET v == resetMonthlyQueries(u, n)
  IN  [doc |-> v, ret |-> v.queryLimit = 0 \/ v.monthlyQueries < v.queryLimit]

\* userSchema.methods.canMakeQuery: the document after the call, and the value returned
canMakeQuery(u, n) ==
  LET v == resetMonthlyQueries(u, n)
  IN  [doc |-> v, ret |-> v.monthlyQueries < v.queryLimit]

\* incrementQueryCount raising the lifetime counter alone
incrementQueryCount_totalOnly(u) ==
  [u EXCEPT !.totalQueries = @ + 1]

\* incrementQueryCount raising the monthly counter by two
incrementQueryCount_byTwo(u) ==
  [u EXCEPT !.totalQueries = @ + 1, !.monthlyQueries = @ + 2]

\* the assignments of userSchema.methods.incrementQueryCount (before its save)
incrementQueryCount(u) ==
  [u EXCEPT !.totalQueries = @ + 1, !.monthlyQueries = @ + 1]

\* save writing the whole in-memory document
save_wholeDocument(stored, base, mem) == mem

\* Document.prototype.save: the stored document after the paths modified in the
\* in-memory copy (mem differs from base, its last synchronised value) are written
save(stored, base, mem) ==
  [f \in DOMAIN stored |-> IF mem[f] # base[f] THEN mem[f] ELSE stored[f]]

(* ----------------------------- CodeExecutor --------------------------- *)

\* a path that is not set (JavaScript undefined or null)
Undefined == "<undefined>"

\* JavaScript `a || b` on strings: the empty string and an unset value are falsy
Or(a, b) == IF a \in {"", Undefined} THEN b ELSE a

\* this.languageIds: language name -> Judge0 language id
languageIds ==
  [javascript |-> 63, python |-> 71, java |-> 62, cpp |-> 54, c |-> 50,
   csharp |-> 51, ruby |-> 72, go |-> 60, rust |-> 73, php |-> 68,
   swift |-> 83, kotlin |-> 78, typescript |-> 74]

\* String.prototype.toLowerCase on the language names that requests carry
toLowerCase(s) ==
  CASE s = "Python" -> "python"
    [] s = "COBOL" -> "cobol"
    [] OTHER -> s

\* statusMap of formatResult
statusMap ==
  [i \in 1..14 |->
     CASE i = 1 -> "In Queue"
       [] i = 2 -> "Processing"
       [] i = 3 -> "Accepted"
       [] i = 4 -> "Wrong Answer"
       [] i = 5 -> "Time Limit Exceeded"
       [] i = 6 -> "Compilation Error"
       [] i = 7 -> "Runtime Error (SIGSEGV)"
       [] i = 8 -> "Runtime Error (SIGXFSZ)"
       [] i = 9 -> "Runtime Error (SIGFPE)"
       [] i = 10 -> "Runtime Error (SIGABRT)"
       [] i = 11 -> "Runtime Error (NZEC)"
       [] i = 12 -> "Runtime Error (Other)"
       [] i = 13 -> "Internal Error"
       [] i = 14 -> "Exec Format Error"]

\* formatResult leaving compile output out of the error field
formatResult_stderrOnly(rawResult) ==
  [status   |-> IF rawResult.status_id \in DOMAIN statusMap
                THEN statusMap[rawResult.status_id] ELSE "Unknown",
   statusId |-> rawResult.status_id,
   output   |-> Or(rawResult.stdout, ""),
   error    |-> Or(rawResult.stderr, ""),
   time     |-> Or(rawResult.time, "0"),
   memory   |-> Or(rawResult.memory, "0"),
   exitCode |-> rawResult.exit_code]

\* CodeExecutor.formatResult
formatResult(rawResult) ==
  [status   |-> IF rawResult.status_id \in DOMAIN statusMap
                THEN statusMap[rawResult.status_id] ELSE "Unknown",
   statusId |-> rawResult.status_id,
   output   |-> Or(rawResult.stdout, ""),
   error    |-> Or(rawResult.stderr, Or(rawResult.compile_output, "")),
   time     |-> Or(rawResult.time, "0"),
   memory   |-> Or(rawResult.memory, "0"),
   exitCode |-> rawResult.exit_code]

\* const maxAttempts = 10
maxAttempts == 10

\* message of a transport failure raised by axios
NetworkError == "Network Error"

\* a sandbox answer to the status fetch: still running
BusyRaw ==
  [status_id |-> 2, stdout |-> Undefined, stderr |-> Undefined,
   compile_output |-> Undefined, time |-> Undefined, memory |-> Undefined,
   exit_code |-> Undefined]

\* a sandbox answer to the status fetch: the job waits in the queue
QueuedRaw == [BusyRaw EXCEPT !.status_id = 1]

\* a sandbox answer to the status fetch: the program ran and printed a line
AcceptedRaw ==
  [status_id |-> 3, stdout |-> "6\n", stderr |-> Undefined,
   compile_output |-> Undefined, time |-> "0.01", memory |-> "3456",
   exit_code |-> "0"]

\* a sandbox answer to the status fetch: the program did not compile
CompilationErrorRaw ==
  [status_id |-> 6, stdout |-> Undefined, stderr |-> Undefined,
   compile_output |-> "SyntaxError", time |-> Undefined, memory |-> Undefined,
   exit_code |-> Undefined]

\* a sandbox answer to the status fetch: the program exited with a non-zero code
RuntimeErrorRaw ==
  [status_id |-> 11, stdout |-> "", stderr |-> "Traceback", compile_output |-> Undefined,
   time |-> "0.02", memory |-> "3500", exit_code |-> "1"]

\* a sandbox answer to the status fetch with a status id outside statusMap
UnlistedRaw == [BusyRaw EXCEPT !.status_id = 15]

\* the answers a sandbox gives once the job has left the busy states
FinalRaws == {AcceptedRaw, CompilationErrorRaw, RuntimeErrorRaw, UnlistedRaw}

\* getSubmissionResult swallowing a transport failure (the busy answer is returned)
getSubmissionResult_swallowing(sb, k) ==
  [threw |-> FALSE, message |-> "",
   data |-> IF k <= sb.queued THEN QueuedRaw
            ELSE IF k <= sb.busy THEN BusyRaw ELSE sb.final]

\* getSubmissionResult: the answer to the k-th status fetch of a job on sandbox sb,
\* which rejects the submission (submitOk = FALSE), rejects fetch number failAt,
\* answers "In Queue" to the first `queued` fetches, "Processing" up to fetch
\* number `busy`, and `final` afterwards
getSubmissionResult(sb, k) ==
  IF k = sb.failAt
  THEN [threw |-> TRUE,
        message |-> "Failed to get submission result: " \o NetworkError,
        data |-> BusyRaw]
  ELSE [threw |-> FALSE, message |-> "",
        data |-> IF k <= sb.queued THEN QueuedRaw
                 ELSE IF k <= sb.busy THEN BusyRaw ELSE sb.final]

\* the polling loop with the ceiling test passed once more (attempts <= maxAttempts)
RECURSIVE pollLoop_oneMore(_, _, _)
pollLoop_oneMore(sb, k, attempts) ==
  LET r == getSubmissionResult(sb, k)
  IN  IF r.threw
      THEN [threw |-> TRUE, message |-> r.message, data |-> r.data, fetches |-> k]
      ELSE IF r.data.status_id <= 2 /\ attempts <= maxAttempts
           THEN pollLoop_oneMore(sb, k + 1, attempts + 1)
           ELSE [threw |-> FALSE, message |-> "", data |-> r.data, fetches |-> k]

\* the polling loop taking status 3 for a busy state (status.id <= 3)
RECURSIVE pollLoop_pollsAccepted(_, _, _)
pollLoop_pollsAccepted(sb, k, attempts) ==
  LET r == getSubmissionResult(sb, k)
  IN  IF r.threw
      THEN [threw |-> TRUE, message |-> r.message, data |-> r.data, fetches |-> k]
      ELSE IF r.data.status_id <= 3 /\ attempts < maxAttempts
           THEN pollLoop_pollsAccepted(sb, k + 1, attempts + 1)
           ELSE [threw |-> FALSE, message |-> "", data |-> r.data, fetches |-> k]

\* the polling loop of executeCode, entered with the k-th fetch outstanding
RECURSIVE pollLoop(_, _, _)
pollLoop(sb, k, attempts) ==
  LET r == getSubmissionResult(sb, k)
  IN  IF r.threw
      THEN [threw |-> TRUE, message |-> r.message, data |-> r.data, fetches |-> k]
      ELSE IF r.data.status_id <= 2 /\ attempts < maxAttempts
           THEN pollLoop(sb, k + 1, attempts + 1)
           ELSE [threw |-> FALSE, message |-> "", data |-> r.data, fetches |-> k]

\* filler of the result field of an executeCode call that throws
NoFormatted == formatResult(BusyRaw)

\* executeCode without the test of the API key
executeCode_keyless(apiKey, language, sb) ==
  IF toLowerCase(language) \notin DOMAIN languageIds
  THEN [threw |-> TRUE,
        message |-> "Code execution failed: Language '" \o language
                      \o "' not supported for execution",
        result |-> NoFormatted, submits |-> 0, fetches |-> 0]
  ELSE IF ~sb.submitOk
  THEN [threw |-> TRUE,
        message |-> "Code execution failed: " \o NetworkError,
        result |-> NoFormatted, submits |-> 1, fetches |-> 0]
  ELSE LET p == pollLoop(sb, 1, 0)
       IN  IF p.threw
           THEN [threw |-> TRUE,
                 message |-> "Code execution failed: " \o p.message,
                 result |-> NoFormatted, submits |-> 1, fetches |-> p.fetches]
           ELSE [threw |-> FALSE, message |-> "",
                 result |-> formatResult(p.data), submits |-> 1,
                 fetches |-> p.fetches]

\* CodeExecutor.executeCode(code, language): what it throws or returns, and the
\* requests it sent to the sandbox (submissions, status fetches)
executeCode(apiKey, language, sb) ==
  IF ~apiKey
  THEN [threw |-> TRUE, message |-> "Judge0 API key not configured",
        result |-> NoFormatted, submits |-> 0, fetches |-> 0]
  ELSE IF toLowerCase(language) \notin DOMAIN languageIds
  THEN [threw |-> TRUE,
        message |-> "Code execution failed: Language '" \o language
                      \o "' not supported for execution",
        result |-> NoFormatted, submits |-> 0, fetches |-> 0]
  ELSE IF ~sb.submitOk
  THEN [threw |-> TRUE,
        message |-> "Code execution failed: " \o NetworkError,
        result |-> NoFormatted, submits |-> 1, fetches |-> 0]
  ELSE LET p == pollLoop(sb, 1, 0)
       IN  IF p.threw
           THEN [threw |-> TRUE,
                 message |-> "Code execution failed: " \o p.message,
                 result |-> NoFormatted, submits |-> 1, fetches |-> p.fetches]
           ELSE [threw |-> FALSE, message |-> "",
                 result |-> formatResult(p.data), submits |-> 1,
                 fetches |-> p.fetches]

(* ---------------------- CodeExecutor.validateCode -------------------- *)

\* A code text is the sequence of its characters.

\* the characters String.prototype.trim removes and \s matches
Whitespace == {" ", "\t", "\n"}

UpperCase ==
  <<"A", "B", "C", "D", "E", "F", "G", "H", "I", "J", "K", "L", "M",
    "N", "O", "P", "Q", "R", "S", "T", "U", "V", "W", "X", "Y", "Z">>

LowerCase ==
  <<"a", "b", "c", "d", "e", "f", "g", "h", "i", "j", "k", "l", "m",
    "n", "o", "p", "q", "r", "s", "t", "u", "v", "w", "x", "y", "z">>

\* the case folding of the /i flag on one character
foldCase(c) ==
  IF \E i \in DOMAIN UpperCase : UpperCase[i] = c
  THEN LowerCase[CHOOSE i \in DOMAIN UpperCase : UpperCase[i] = c]
  ELSE c

\* a pattern is a sequence of items; an item matches one character of the set cs,
\* or any run of them (star)
One(cs) == [cs |-> cs, star |-> FALSE]
Star(cs) == [cs |-> cs, star |-> TRUE]

\* the pattern of a literal text
Lit(text) == [i \in DOMAIN text |-> One({text[i]})]

\* whether items i.. of the pattern match the text from position j on
RECURSIVE matchHere(_, _, _, _)
matchHere(pattern, i, text, j) ==
  IF i > Len(pattern) THEN TRUE
  ELSE LET hit == j <= Len(text) /\ foldCase(text[j]) \in pattern[i].cs
       IN  IF pattern[i].star
           THEN \/ matchHere(pattern, i + 1, text, j)
                \/ hit /\ matchHere(pattern, i, text, j + 1)
           ELSE hit /\ matchHere(pattern, i + 1, text, j + 1)

\* RegExp.prototype.test: the pattern matches somewhere in the text
test(pattern, text) ==
  \E j \in 1..(Len(text) + 1) : matchHere(pattern, 1, text, j)

\* const dangerousPatterns = [...]
dangerousPatterns ==
  {Lit(<<"e", "x", "e", "c">>) \o <<Star(Whitespace)>> \o Lit(<<"(">>),
   Lit(<<"e", "v", "a", "l">>) \o <<Star(Whitespace)>> \o Lit(<<"(">>),
   Lit(<<"s", "y", "s", "t", "e", "m">>) \o <<Star(Whitespace)>> \o Lit(<<"(">>),
   Lit(<<"p", "o", "p", "e", "n">>) \o <<Star(Whitespace)>> \o Lit(<<"(">>),
   Lit(<<"o", "s", ".", "s", "y", "s", "t", "e", "m">>),
   Lit(<<"s", "u", "b", "p", "r", "o", "c", "e", "s", "s", ".">>),
   Lit(<<"i", "m", "p", "o", "r", "t">>)
     \o <<One(Whitespace), Star(Whitespace)>> \o Lit(<<"o", "s">>),
   Lit(<<"r", "e", "q", "u", "i", "r", "e">>)
     \o <<Star(Whitespace)>> \o Lit(<<"(">>) \o <<Star(Whitespace), One({"'", "\""})>>
     \o Lit(<<"c", "h", "i", "l", "d", "_", "p", "r", "o", "c", "e", "s", "s">>)
     \o <<One({"'", "\""}), Star(Whitespace)>> \o Lit(<<")">>)}

\* !code || code.trim().length === 0
isBlank(code) == \A i \in DOMAIN code : code[i] \in Whitespace

\* validateCode with the blocklist loop left out
validateCode_noBlocklist(code, language) ==
  IF isBlank(code)
  THEN [threw |-> TRUE, message |-> "Code cannot be empty"]
  ELSE IF language \in {Undefined, ""}
  THEN [threw |-> TRUE, message |-> "Programming language must be specified"]
  ELSE [threw |-> FALSE, message |-> ""]

\* CodeExecutor.validateCode(code, language): what it throws, or that it returns true
validateCode(code, language) ==
  IF isBlank(code)
  THEN [threw |-> TRUE, message |-> "Code cannot be empty"]
  ELSE IF language \in {Undefined, ""}
  THEN [threw |-> TRUE, message |-> "Programming language must be specified"]
  ELSE IF \E pattern \in dangerousPatterns : test(pattern, code)
  THEN [threw |-> TRUE, message |-> "Code contains potentially dangerous operations"]
  ELSE [threw |-> FALSE, message |-> ""]

(* --------------------------- AIService -------------------------------- *)

\* A raw answer is the sequence of its characters.

Digits == {"0", "1", "2", "3", "4", "5", "6", "7", "8", "9"}

\* the characters \w matches
WordChars ==
  {UpperCase[i] : i \in DOMAIN UpperCase} \cup {LowerCase[i] : i \in DOMAIN LowerCase}
    \cup Digits \cup {"_"}

\* the least and the greatest member of a non-empty set of positions
Least(S) == CHOOSE i \in S : \A j \in S : i <= j
Greatest(S) == CHOOSE i \in S : \A j \in S : i >= j

\* String.prototype.trim
trim(text) ==
  LET kept == {i \in DOMAIN text : text[i] \notin Whitespace}
  IN  IF kept = {} THEN <<>> ELSE SubSeq(text, Least(kept), Greatest(kept))

\* the length of the longest run of characters of cs that starts at position i
runLength(text, i, cs) ==
  Greatest({n \in 0..(Len(text) + 1 - i) : \A k \in 0..(n - 1) : text[i + k] \in cs})

\* the backtick character (a string cannot hold it as written)
Backtick == "<backtick>"

\* the three backticks stand at position i
fenceAt(text, i) ==
  /\ i + 2 <= Len(text)
  /\ text[i] = Backtick
  /\ text[i + 1] = Backtick
  /\ text[i + 2] = Backtick

\* the first position from `from` on where three backticks stand, 0 when there is
\* none (positions count from 1, those of JavaScript from 0)
indexOfFence(text, from) ==
  LET hits == {i \in from..Len(text) : fenceAt(text, i)}
  IN  IF hits = {} THEN 0 ELSE Least(hits)

\* codeBlockAt keeping the white space around the block's content
codeBlockAt_untrimmed(text, i) ==
  LET tag == runLength(text, i + 3, WordChars)
      newline == i + 3 + tag
      close == indexOfFence(text, newline + 1)
  IN  IF fenceAt(text, i) /\ newline <= Len(text) /\ text[newline] = "\n" /\ close # 0
      THEN [found |-> TRUE,
            language |-> IF tag = 0 THEN <<"t", "e", "x", "t">>
                         ELSE SubSeq(text, i + 3, i + 2 + tag),
            code |-> SubSeq(text, newline + 1, close - 1),
            lastIndex |-> close + 3]
      ELSE [found |-> FALSE, language |-> <<>>, code |-> <<>>, lastIndex |-> i]

\* a match of codeBlockRegex = /```(\w+)?\n([\s\S]*?)```/ that starts at position i:
\* the tag is the whole run of word characters after the fence, a newline follows
\* it, and the block ends at the next fence
codeBlockAt(text, i) ==
  LET tag == runLength(text, i + 3, WordChars)
      newline == i + 3 + tag
      close == indexOfFence(text, newline + 1)
  IN  IF fenceAt(text, i) /\ newline <= Len(text) /\ text[newline] = "\n" /\ close # 0
      THEN [found |-> TRUE,
            language |-> IF tag = 0 THEN <<"t", "e", "x", "t">>
                         ELSE SubSeq(text, i + 3, i + 2 + tag),
            code |-> trim(SubSeq(text, newline + 1, close - 1)),
            lastIndex |-> close + 3]
      ELSE [found |-> FALSE, language |-> <<>>, code |-> <<>>, lastIndex |-> i]

\* the loop of codeBlockRegex.exec from position `from` on: the blocks pushed
RECURSIVE codeBlocksFrom(_, _)
codeBlocksFrom(text, from) ==
  LET starts == {i \in from..Len(text) : codeBlockAt(text, i).found}
  IN  IF starts = {} THEN <<>>
      ELSE LET m == codeBlockAt(text, Least(starts))
           IN  <<[language |-> m.language, code |-> m.code]>>
                 \o codeBlocksFrom(text, m.lastIndex)

\* a match of stepRegex = /(\d+)\.\s+([^\n]+)/ that starts at position i: digits, a
\* dot, the longest run of white space that leaves a character other than a newline
\* after it, and the rest of that line
stepAt(text, i) ==
  LET digits == runLength(text, i, Digits)
      dot == i + digits
      space == runLength(text, dot + 1, Whitespace)
      taken == {k \in 1..space :
                  dot + 1 + k <= Len(text) /\ text[dot + 1 + k] # "\n"}
  IN  IF digits >= 1 /\ dot <= Len(text) /\ text[dot] = "." /\ taken # {}
      THEN LET first == dot + 1 + Greatest(taken)
               line == runLength(text, first, {text[j] : j \in DOMAIN text} \ {"\n"})
           IN  [found |-> TRUE,
                description |-> trim(SubSeq(text, first, first + line - 1)),
                lastIndex |-> first + line]
      ELSE [found |-> FALSE, description |-> <<>>, lastIndex |-> i]

\* the loop of stepRegex.exec from position `from` on with the counter at
\* stepNumber: the steps pushed
RECURSIVE stepsFrom(_, _, _)
stepsFrom(text, from, stepNumber) ==
  LET starts == {i \in from..Len(text) : stepAt(text, i).found}
  IN  IF starts = {} THEN <<>>
      ELSE LET m == stepAt(text, Least(starts))
           IN  <<[stepNumber |-> stepNumber, description |-> m.description]>>
                 \o stepsFrom(text, m.lastIndex, stepNumber + 1)

\* String.prototype.split('\n')
RECURSIVE split(_)
split(text) ==
  LET newlines == {i \in DOMAIN text : text[i] = "\n"}
  IN  IF newlines = {} THEN <<text>>
      ELSE <<SubSeq(text, 1, Least(newlines) - 1)>>
             \o split(SubSeq(text, Least(newlines) + 1, Len(text)))

\* Array.prototype.join('\n')
RECURSIVE join(_)
join(lines) ==
  IF lines = <<>> THEN <<>>
  ELSE IF Len(lines) = 1 THEN lines[1]
  ELSE lines[1] \o <<"\n">> \o join(Tail(lines))

\* Array.prototype.slice(0, n)
slice(lines, n) == SubSeq(lines, 1, IF Len(lines) < n THEN Len(lines) ELSE n)

\* the explanation of parseResponse: firstCodeIndex > 0 ? substring(0,
\* firstCodeIndex).trim() : split('\n').slice(0, 3).join('\n').trim()
explanationOf(rawResponse) ==
  LET firstCodeIndex == indexOfFence(rawResponse, 1)
  IN  IF firstCodeIndex > 1
      THEN trim(SubSeq(rawResponse, 1, firstCodeIndex - 1))
      ELSE trim(join(slice(split(rawResponse), 3)))

\* parseResponse taking the last block for the optimized version
parseResponse_lastBlock(rawResponse) ==
  LET codeBlocks == codeBlocksFrom(rawResponse, 1)
  IN  [explanation |-> explanationOf(rawResponse),
       code |-> [language |-> IF Len(codeBlocks) > 0 THEN codeBlocks[1].language
                              ELSE <<>>,
                 snippet |-> IF Len(codeBlocks) > 0 THEN codeBlocks[1].code ELSE <<>>,
                 optimizedVersion |-> IF Len(codeBlocks) > 1
                                      THEN codeBlocks[Len(codeBlocks)].code ELSE <<>>],
       steps |-> stepsFrom(rawResponse, 1, 1)]

\* parseResponse starting the step counter at 0
parseResponse_numbersKept(rawResponse) ==
  LET codeBlocks == codeBlocksFrom(rawResponse, 1)
  IN  [explanation |-> explanationOf(rawResponse),
       code |-> [language |-> IF Len(codeBlocks) > 0 THEN codeBlocks[1].language
                              ELSE <<>>,
                 snippet |-> IF Len(codeBlocks) > 0 THEN codeBlocks[1].code ELSE <<>>,
                 optimizedVersion |-> IF Len(codeBlocks) > 1 THEN codeBlocks[2].code
                                      ELSE <<>>],
       steps |-> stepsFrom(rawResponse, 1, 0)]

\* AIService.parseResponse
parseResponse(rawResponse) ==
  LET codeBlocks == codeBlocksFrom(rawResponse, 1)
  IN  [explanation |-> explanationOf(rawResponse),
       code |-> [language |-> IF Len(codeBlocks) > 0 THEN codeBlocks[1].language
                              ELSE <<>>,
                 snippet |-> IF Len(codeBlocks) > 0 THEN codeBlocks[1].code ELSE <<>>,
                 optimizedVersion |-> IF Len(codeBlocks) > 1 THEN codeBlocks[2].code
                                      ELSE <<>>],
       steps |-> stepsFrom(rawResponse, 1, 1)]

\* the value of generateSolution's fields while there is no parsed answer
NoParsed == [explanation |-> <<>>,
             code |-> [language |-> <<>>, snippet |-> <<>>, optimizedVersion |-> <<>>],
             steps |-> <<>>]

\* A provider is what the two completion services do during one call: whether
\* ANTHROPIC_API_KEY is configured, whether the request made is answered, the
\* reason when it is not, and the answer text when it is.

\* generateSolutionGPT sending the request again after a failure
generateSolutionGPT_retrying(provider) ==
  [threw |-> ~provider.ok,
   message |-> IF provider.ok THEN "" ELSE "AI service error: " \o provider.reason,
   answer |-> IF provider.ok THEN provider.answer ELSE <<>>,
   model |-> "gpt-4", openai |-> IF provider.ok THEN 1 ELSE 2, anthropic |-> 0]

\* generateSolutionGPT: one openai.chat.completions.create request
generateSolutionGPT(provider) ==
  [threw |-> ~provider.ok,
   message |-> IF provider.ok THEN "" ELSE "AI service error: " \o provider.reason,
   answer |-> IF provider.ok THEN provider.answer ELSE <<>>,
   model |-> "gpt-4", openai |-> 1, anthropic |-> 0]

\* generateSolutionClaude: no request without a key, else one
\* anthropic.messages.create request
generateSolutionClaude(provider) ==
  IF ~provider.anthropicKey
  THEN [threw |-> TRUE, message |-> "Anthropic API key not configured",
        answer |-> <<>>, model |-> "claude-3", openai |-> 0, anthropic |-> 0]
  ELSE [threw |-> ~provider.ok,
        message |-> IF provider.ok THEN "" ELSE "AI service error: " \o provider.reason,
        answer |-> IF provider.ok THEN provider.answer ELSE <<>>,
        model |-> "claude-3", openai |-> 0, anthropic |-> 1]

\* generateSolution asking the primary provider after the secondary one failed
generateSolution_fallback(aiModel, provider) ==
  LET first == IF aiModel = "claude-3" \/ aiModel = "claude-2"
               THEN generateSolutionClaude(provider)
               ELSE generateSolutionGPT(provider)
      second == generateSolutionGPT(provider)
      result == IF first.threw /\ first.model = "claude-3"
                THEN [second EXCEPT !.anthropic = first.anthropic] ELSE first
      parsed == IF result.threw THEN NoParsed ELSE parseResponse(result.answer)
  IN  [threw |-> result.threw, message |-> result.message,
       explanation |-> parsed.explanation, code |-> parsed.code,
       steps |-> parsed.steps, aiModel |-> result.model,
       openai |-> result.openai, anthropic |-> result.anthropic]

\* AIService.generateSolution(problem, aiModel = 'gpt-4'): what it throws or
\* returns, and the requests it sent to the two providers
generateSolution(aiModel, provider) ==
  LET result == IF aiModel = "claude-3" \/ aiModel = "claude-2"
                THEN generateSolutionClaude(provider)
                ELSE generateSolutionGPT(provider)
      parsed == IF result.threw THEN NoParsed ELSE parseResponse(result.answer)
  IN  [threw |-> result.threw, message |-> result.message,
       explanation |-> parsed.explanation, code |-> parsed.code,
       steps |-> parsed.steps, aiModel |-> result.model,
       openai |-> result.openai, anthropic |-> result.anthropic]

\* A raw answer is put together from parts: a part is a piece of prose, or a
\* fenced code block with its tag and content.

Prose(text) == [block |-> FALSE, tag |-> <<>>, text |-> text]
Block(tag, text) == [block |-> TRUE, tag |-> tag, text |-> text]

\* the characters of a part in the raw answer
PartText(part) ==
  IF part.block
  THEN <<Backtick, Backtick, Backtick>> \o part.tag \o <<"\n">> \o part.text
         \o <<Backtick, Backtick, Backtick>>
  ELSE part.text

\* the raw answer made of the parts
RECURSIVE Raw(_)
Raw(parts) == IF parts = <<>> THEN <<>> ELSE PartText(Head(parts)) \o Raw(Tail(parts))

\* the word python as a fence tag
PythonTag == <<"p", "y", "t", "h", "o", "n">>

\* pieces of prose: a sentence, two numbered lines, a blank line, and a line
\* without a space after the dot and without a line end
ProseTexts ==
  {<<"S", "u", "m", " ", "i", "t", ".", "\n">>,
   <<"1", ".", " ", "R", "e", "a", "d", "\n">>,
   <<"1", "2", ".", " ", "A", "d", "d", "\n">>,
   <<" ", "\n">>,
   <<"3", ".", "G", "o">>}

\* contents of code blocks: a statement, an indented numbered line, nothing
BlockTexts ==
  {<<"p", "r", "i", "n", "t", "(", "6", ")", "\n">>,
   <<" ", "7", ".", " ", "x", " ", "\n">>,
   <<>>}

\* the parts the raw answers are made of
Parts ==
  {Prose(text) : text \in ProseTexts}
    \cup {Block(tag, text) : tag \in {<<>>, PythonTag}, text \in BlockTexts}

\* sequences of at most n parts
RECURSIVE PartLists(_)
PartLists(n) ==
  IF n = 0 THEN {<<>>}
  ELSE PartLists(n - 1)
         \cup {Append(parts, part) : parts \in PartLists(n - 1), part \in Parts}

\* the answer of the end-to-end example: a sentence, three numbered lines and one
\* python block
ExampleParts ==
  <<Prose(<<"S", "u", "m", " ", "i", "t", ".", "\n">>),
    Prose(<<"1", ".", " ", "R", "e", "a", "d", "\n">>),
    Prose(<<"1", "2", ".", " ", "A", "d", "d", "\n">>),
    Prose(<<"7", ".", " ", "P", "r", "i", "n", "t", "\n">>),
    Block(PythonTag, <<"p", "r", "i", "n", "t", "(", "6", ")", "\n">>)>>

\* an answer without code and without numbered lines
PlainParts == <<Prose(<<"S", "u", "m", " ", "i", "t", ".", "\n">>)>>

\* the model names of solutionSchema.aiModel, and no name given
ModelNames == {Undefined, "gpt-4", "gpt-3.5-turbo", "claude-3", "claude-2"}

\* the providers of the calls
Providers ==
  {[anthropicKey |-> k, ok |-> ok, reason |-> IF ok THEN "" ELSE NetworkError,
    answer |-> IF ok THEN answer ELSE <<>>] :
     k \in BOOLEAN, ok \in BOOLEAN, answer \in {Raw(ExampleParts), Raw(PlainParts)}}

(* ------------------------ Solution documents -------------------------- *)

\* solutionSchema.executionResult: the paths the schema keeps
ExecutionResultPaths == {"status", "output", "time", "memory", "error"}

\* executionResult of a Solution on which none was set
NoExecutionResult == [f \in ExecutionResultPaths |-> Undefined]

\* assignment to solution.executionResult: the schema keeps its own paths only
castExecutionResult(v) ==
  [f \in ExecutionResultPaths |-> IF f \in DOMAIN v THEN v[f] ELSE Undefined]

(* ------------------------------- state -------------------------------- *)

VARIABLES
  now,        \* the server clock (new Date())
  apiKey,     \* whether process.env.RAPIDAPI_KEY is configured
  users,      \* the User collection: id -> quota paths
  problems,   \* the Problem collection: id -> document
  solutions,  \* the Solution collection: id -> document
  runs,       \* the POST /api/problems requests: position and in-memory documents
  q,          \* a User document on which the quota methods are called directly
  x,          \* a CodeExecutor method called directly: its arguments and outcome
  ai,         \* an AIService method called directly: its arguments and outcome
  del,        \* a DELETE request for a problem or a user: position and loaded documents
  req         \* a GET /api/problems/:id or bookmark request: position and loaded document

vars == <<now, apiKey, users, problems, solutions, runs, q, x, ai, del, req>>

\* aiResult of a request before aiService.generateSolution has returned
NoAiResult == [aiModel |-> Undefined, explanation |-> NoParsed.explanation,
               code |-> NoParsed.code, steps |-> NoParsed.steps]

\* a request that has not arrived
IdleRun ==
  [pc |-> "idle", user |-> 0, reqUser |-> <<>>, reqUserBase |-> <<>>,
   language |-> Undefined, aiResult |-> NoAiResult,
   problem |-> <<>>, problemBase |-> <<>>, returned |-> NoFormatted,
   executionResult |-> NoExecutionResult, execMessage |-> "",
   res |-> "", hist |-> <<>>]

\* a User document as the store holds it after registration, with plan limit l
NewUser(l) ==
  [totalQueries |-> 0, monthlyQueries |-> 0, lastResetDate |-> 0, queryLimit |-> l]

\* the quota document and call record while no quota method has been called
QIdle == [user |-> NewUser(0), op |-> "none", ret |-> FALSE, pre |-> NewUser(0),
          at |-> 0, incs |-> 0]

\* the outcome record of a CodeExecutor call that has not been made
NoOutcome == [threw |-> FALSE, message |-> "", result |-> NoFormatted,
              submits |-> 0, fetches |-> 0]

\* a sandbox that accepts the submission and answers the first fetch with `final`
PromptSandbox(final) ==
  [submitOk |-> TRUE, failAt |-> 0, queued |-> 0, busy |-> 0, final |-> final]

\* the call record while no AIService method is being called
AIdle == [op |-> "none", parts |-> <<>>, aiModel |-> Undefined,
          provider |-> [anthropicKey |-> FALSE, ok |-> FALSE, reason |-> "",
                        answer |-> <<>>],
          out |-> [threw |-> FALSE, message |-> "", explanation |-> <<>>,
                   code |-> NoParsed.code, steps |-> <<>>, aiModel |-> Undefined,
                   openai |-> 0, anthropic |-> 0]]

\* the delete request while none has arrived (todo: the problems of a user that
\* the deletion of that user has still to remove)
DIdle == [pc |-> "idle", id |-> 0, user |-> 0, admin |-> FALSE, problem |-> <<>>,
          todo |-> <<>>, res |-> ""]

\* the GET or bookmark request while none has arrived (n: requests so far)
RIdle == [pc |-> "idle", kind |-> "none", id |-> 0, user |-> 0, admin |-> FALSE,
          problem |-> <<>>, base |-> <<>>, res |-> "", n |-> 0]

\* the call record while no CodeExecutor method is being called
XIdle == [op |-> "none", key |-> FALSE, code |-> <<>>, language |-> Undefined,
          sb |-> PromptSandbox(AcceptedRaw), out |-> NoOutcome]

Init ==
  /\ now = FirstPipeNow
  /\ apiKey \in BOOLEAN
  /\ users \in [Users -> {NewUser(l) : l \in 0..MaxLimit}]
  /\ problems = <<>>
  /\ solutions = <<>>
  /\ runs = [r \in Runs |-> IdleRun]
  /\ q = QIdle
  /\ x = XIdle
  /\ ai = AIdle
  /\ del = DIdle
  /\ req = RIdle

\* languages a request body carries (none, supported, unsupported)
RequestLanguages == {Undefined, "python", "cobol"}

\* behaviours of the sandbox during one executeCode call
PipeSandboxes ==
  {[submitOk |-> FALSE, failAt |-> 0, queued |-> 0, busy |-> 0, final |-> AcceptedRaw],
   [submitOk |-> TRUE, failAt |-> 1, queued |-> 0, busy |-> 0, final |-> AcceptedRaw],
   [submitOk |-> TRUE, failAt |-> 0, queued |-> 0, busy |-> 0, final |-> AcceptedRaw]}

\* message of a rejected storage operation
StorageError == "storage operation failed"

\* the run's record with its position moved and one event appended to its history
Step(run, pc, ev, ok) ==
  [run EXCEPT !.pc = pc, !.hist = Append(@, [ev |-> ev, ok |-> ok])]

\* res.status(code).json(...): the request is answered
Respond(run, res) == [run EXCEPT !.pc = "done", !.res = res]

(* ------------------------ admission middleware ------------------------ *)

\* protect: req.user = await User.findById(decoded.id)
Protect(r, u) ==
  /\ runs[r].pc = "idle"
  /\ u \in DOMAIN users
  /\ runs' = [runs EXCEPT ![r] =
       [@ EXCEPT !.pc = "checkQueryLimit", !.user = u,
                 !.reqUser = users[u], !.reqUserBase = users[u]]]
  /\ UNCHANGED <<now, apiKey, users, problems, solutions, q, x, ai, del, req>>

\* checkQueryLimit saving the user document after the check
CheckQueryLimit_saving(r) ==
  /\ runs[r].pc = "checkQueryLimit"
  /\ LET c == canMakeQuery(runs[r].reqUser, now)
         run == [runs[r] EXCEPT !.reqUser = c.doc, !.reqUserBase = c.doc]
     IN  /\ runs' = [runs EXCEPT ![r] =
              IF c.ret
              THEN Step(run, "create", "admission", TRUE)
              ELSE Respond(Step(run, "done", "admission", FALSE), "429")]
         /\ users' = [users EXCEPT ![runs[r].user] =
              save(@, runs[r].reqUserBase, c.doc)]
  /\ UNCHANGED <<now, apiKey, problems, solutions, q, x, ai, del, req>>

\* checkQueryLimit recording the usage when it admits
CheckQueryLimit_charging(r) ==
  /\ runs[r].pc = "checkQueryLimit"
  /\ LET c == canMakeQuery(runs[r].reqUser, now)
         run == [runs[r] EXCEPT !.reqUser = c.doc]
     IN  /\ runs' = [runs EXCEPT ![r] =
              IF c.ret
              THEN Step(run, "create", "admission", TRUE)
              ELSE Respond(Step(run, "done", "admission", FALSE), "429")]
         /\ users' = IF c.ret /\ runs[r].user \in DOMAIN users
                     THEN [users EXCEPT ![runs[r].user] = incrementQueryCount(c.doc)]
                     ELSE users
  /\ UNCHANGED <<now, apiKey, problems, solutions, q, x, ai, del, req>>

\* checkQueryLimit: 429 unless req.user.canMakeQuery()
CheckQueryLimit(r) ==
  /\ runs[r].pc = "checkQueryLimit"
  /\ LET c == canMakeQuery(runs[r].reqUser, now)
         run == [runs[r] EXCEPT !.reqUser = c.doc]
     IN  runs' = [runs EXCEPT ![r] =
           IF c.ret
           THEN Step(run, "create", "admission", TRUE)
           ELSE Respond(Step(run, "done", "admission", FALSE), "429")]
  /\ UNCHANGED <<now, apiKey, users, problems, solutions, q, x, ai, del, req>>

(* ----------------------- POST /api/problems --------------------------- *)

\* the Problem document Problem.create builds for user u (schema defaults applied)
NewProblem(u) ==
  [user |-> u, status |-> "processing", solution |-> 0, views |-> 0,
   bookmarked |-> FALSE]

\* the Solution document Solution.create builds for problem p from aiResult
NewSolution(p, aiResult) ==
  [problem |-> p, aiModel |-> aiResult.aiModel, explanation |-> aiResult.explanation,
   code |-> aiResult.code, steps |-> aiResult.steps,
   executionResult |-> NoExecutionResult]

\* the store with document d put under id i
Put(coll, i, d) == [j \in DOMAIN coll \cup {i} |-> IF j = i THEN d ELSE coll[j]]

\* body validation, then Problem.create({..., status: 'processing'})
CreateProblem(r) ==
  /\ runs[r].pc = "create"
  /\ \E valid \in BOOLEAN, language \in RequestLanguages, ok \in BOOLEAN :
       LET run == runs[r]
           doc == NewProblem(run.user)
       IN  IF ~valid
           THEN /\ runs' = [runs EXCEPT ![r] = Respond(run, "400")]
                /\ UNCHANGED problems
           ELSE IF ok
           THEN /\ problems' = Put(problems, r, doc)
                /\ runs' = [runs EXCEPT ![r] =
                     Step([run EXCEPT !.language = language, !.problem = doc,
                                      !.problemBase = doc],
                          "generate", "create", TRUE)]
           ELSE /\ runs' = [runs EXCEPT ![r] =
                     Respond(Step(run, "done", "create", FALSE),
                             "500 Error creating problem")]
                /\ UNCHANGED problems
  /\ UNCHANGED <<now, apiKey, users, solutions, q, x, ai, del, req>>

\* the providers of the requests: the request fails, or is answered with the
\* example answer or with the answer without code
PipeProviders == {provider \in Providers : ~provider.anthropicKey}

\* what aiService.generateSolution({...}), called without a model name, does with
\* each of the providers
PipeGenerated == [provider \in PipeProviders |-> generateSolution(Undefined, provider)]

\* aiResult = await aiService.generateSolution({...}) with one of the providers
GenerateSolution(r, generated) ==
  /\ runs[r].pc = "generate"
  /\ \E provider \in DOMAIN generated :
       LET g == generated[provider]
       IN  runs' = [runs EXCEPT ![r] =
             IF g.threw
             THEN Step(@, "saveFailed", "ai", FALSE)
             ELSE Step([@ EXCEPT !.aiResult =
                          [aiModel |-> g.aiModel, explanation |-> g.explanation,
                           code |-> g.code, steps |-> g.steps]],
                       "createSolution", "ai", TRUE)]
  /\ UNCHANGED <<now, apiKey, users, problems, solutions, q, x, ai, del, req>>

\* Solution.create({problem: problem._id, ...}), then the test on
\* aiResult.code.snippet && language
CreateSolution(r) ==
  /\ runs[r].pc = "createSolution"
  /\ \E ok \in BOOLEAN :
       IF ok
       THEN /\ solutions' = Put(solutions, r, NewSolution(r, runs[r].aiResult))
            /\ runs' = [runs EXCEPT ![r] =
                 Step(@, IF @.aiResult.code.snippet # <<>> /\ @.language # Undefined
                         THEN "execute" ELSE "saveSolved",
                      "solution", TRUE)]
       ELSE /\ runs' = [runs EXCEPT ![r] = Step(@, "saveFailed", "solution", FALSE)]
            /\ UNCHANGED solutions
  /\ UNCHANGED <<now, apiKey, users, problems, q, x, ai, del, req>>

\* the executionResult the handler sets when execution or its write throws
ExecutionFailed(message) ==
  castExecutionResult([status |-> "Execution Failed", error |-> message])

\* codeExecutor.executeCode(aiResult.code.snippet, language) and the assignment
\* of solution.executionResult in the try or in the catch
ExecuteCode(r) ==
  /\ runs[r].pc = "execute"
  /\ \E sb \in PipeSandboxes :
       LET e == executeCode(apiKey, runs[r].language, sb)
       IN  runs' = [runs EXCEPT ![r] =
             IF e.threw
             THEN Step([@ EXCEPT !.executionResult = ExecutionFailed(e.message),
                                 !.execMessage = e.message],
                       "saveExecFailed", "execute", FALSE)
             ELSE Step([@ EXCEPT !.executionResult = castExecutionResult(e.result),
                                 !.returned = e.result],
                       "saveResult", "execute", TRUE)]
  /\ UNCHANGED <<now, apiKey, users, problems, solutions, q, x, ai, del, req>>

\* solution.save() after a successful execution; its rejection is caught by
\* catch (execError), which sets the "Execution Failed" result
SaveResult(r) ==
  /\ runs[r].pc = "saveResult"
  /\ \E ok \in BOOLEAN :
       IF ok /\ r \in DOMAIN solutions
       THEN /\ solutions' = [solutions EXCEPT
                 ![r].executionResult = runs[r].executionResult]
            /\ runs' = [runs EXCEPT ![r] = Step(@, "saveSolved", "resultWrite", TRUE)]
       ELSE /\ runs' = [runs EXCEPT ![r] =
                 Step([@ EXCEPT !.executionResult = ExecutionFailed(StorageError)],
                      "saveExecFailed", "resultWrite", FALSE)]
            /\ UNCHANGED solutions
  /\ UNCHANGED <<now, apiKey, users, problems, q, x, ai, del, req>>

\* solution.save() inside catch (execError); its rejection reaches catch (aiError)
SaveExecFailed(r) ==
  /\ runs[r].pc = "saveExecFailed"
  /\ \E ok \in BOOLEAN :
       IF ok /\ r \in DOMAIN solutions
       THEN /\ solutions' = [solutions EXCEPT
                 ![r].executionResult = runs[r].executionResult]
            /\ runs' = [runs EXCEPT ![r] = Step(@, "saveSolved", "resultWrite", TRUE)]
       ELSE /\ runs' = [runs EXCEPT ![r] = Step(@, "saveFailed", "resultWrite", FALSE)]
            /\ UNCHANGED solutions
  /\ UNCHANGED <<now, apiKey, users, problems, q, x, ai, del, req>>

\* problem.solution = solution._id; problem.status = 'solved'; problem.save()
SaveSolved(r) ==
  /\ runs[r].pc = "saveSolved"
  /\ \E ok \in BOOLEAN :
       LET doc == [runs[r].problem EXCEPT !.solution = r, !.status = "solved"]
       IN  IF ok /\ r \in DOMAIN problems
           THEN /\ problems' = [problems EXCEPT
                     ![r] = save(@, runs[r].problemBase, doc)]
                /\ runs' = [runs EXCEPT ![r] =
                     Step([@ EXCEPT !.problem = doc, !.problemBase = doc],
                          "increment", "solvedWrite", TRUE)]
           ELSE /\ runs' = [runs EXCEPT ![r] =
                     Step([@ EXCEPT !.problem = doc],
                          "saveFailed", "solvedWrite", FALSE)]
                /\ UNCHANGED problems
  /\ UNCHANGED <<now, apiKey, users, solutions, q, x, ai, del, req>>

\* the increment written to the documents of all users
IncrementQueryCount_allUsers(r) ==
  /\ runs[r].pc = "increment"
  /\ \E ok \in BOOLEAN :
       LET u == runs[r].user
           doc == incrementQueryCount(runs[r].reqUser)
       IN  IF ok /\ u \in DOMAIN users
           THEN /\ users' = [v \in DOMAIN users |->
                             incrementQueryCount(users[v])]
                /\ runs' = [runs EXCEPT ![r] =
                     Step([@ EXCEPT !.reqUser = doc, !.reqUserBase = doc],
                          "populate", "increment", TRUE)]
           ELSE /\ runs' = [runs EXCEPT ![r] =
                     Step([@ EXCEPT !.reqUser = doc],
                          "saveFailed", "increment", FALSE)]
                /\ UNCHANGED users
  /\ UNCHANGED <<now, apiKey, problems, solutions, q, x, ai, del, req>>

\* req.user.incrementQueryCount(): the two increments, then this.save()
IncrementQueryCount(r) ==
  /\ runs[r].pc = "increment"
  /\ \E ok \in BOOLEAN :
       LET u == runs[r].user
           doc == incrementQueryCount(runs[r].reqUser)
       IN  IF ok /\ u \in DOMAIN users
           THEN /\ users' = [users EXCEPT ![u] = save(@, runs[r].reqUserBase, doc)]
                /\ runs' = [runs EXCEPT ![r] =
                     Step([@ EXCEPT !.reqUser = doc, !.reqUserBase = doc],
                          "populate", "increment", TRUE)]
           ELSE /\ runs' = [runs EXCEPT ![r] =
                     Step([@ EXCEPT !.reqUser = doc],
                          "saveFailed", "increment", FALSE)]
                /\ UNCHANGED users
  /\ UNCHANGED <<now, apiKey, problems, solutions, q, x, ai, del, req>>

\* Problem.findById(problem._id).populate(...), then res.status(201)
Populate(r) ==
  /\ runs[r].pc = "populate"
  /\ \E ok \in BOOLEAN :
       runs' = [runs EXCEPT ![r] =
         IF ok
         THEN Respond(Step(@, "done", "populate", TRUE), "201")
         ELSE Step(@, "saveFailed", "populate", FALSE)]
  /\ UNCHANGED <<now, apiKey, users, problems, solutions, q, x, ai, del, req>>

\* catch (aiError): problem.status = 'failed'; problem.save(); res.status(500);
\* a rejection of this save reaches the outer catch
SaveFailed(r) ==
  /\ runs[r].pc = "saveFailed"
  /\ \E ok \in BOOLEAN :
       LET doc == [runs[r].problem EXCEPT !.status = "failed"]
       IN  IF ok /\ r \in DOMAIN problems
           THEN /\ problems' = [problems EXCEPT
                     ![r] = save(@, runs[r].problemBase, doc)]
                /\ runs' = [runs EXCEPT ![r] =
                     Respond(Step([@ EXCEPT !.problem = doc, !.problemBase = doc],
                                  "done", "failedWrite", TRUE),
                             "500 Failed to generate solution")]
           ELSE /\ runs' = [runs EXCEPT ![r] =
                     Respond(Step([@ EXCEPT !.problem = doc],
                                  "done", "failedWrite", FALSE),
                             "500 Error creating problem")]
                /\ UNCHANGED problems
  /\ UNCHANGED <<now, apiKey, users, solutions, q, x, ai, del, req>>

\* time passes on the server
Tick ==
  /\ now < MaxPipeNow
  /\ now' = now + 1
  /\ UNCHANGED <<apiKey, users, problems, solutions, runs, q, x, ai, del, req>>

Next ==
  \/ \E r \in Runs, u \in Users : Protect(r, u)
  \/ \E r \in Runs : CheckQueryLimit(r)
  \/ \E r \in Runs : CreateProblem(r)
  \/ \E r \in Runs : GenerateSolution(r, PipeGenerated)
  \/ \E r \in Runs : CreateSolution(r)
  \/ \E r \in Runs : ExecuteCode(r)
  \/ \E r \in Runs : SaveResult(r)
  \/ \E r \in Runs : SaveExecFailed(r)
  \/ \E r \in Runs : SaveSolved(r)
  \/ \E r \in Runs : IncrementQueryCount(r)
  \/ \E r \in Runs : Populate(r)
  \/ \E r \in Runs : SaveFailed(r)
  \/ Tick

Spec == Init /\ [][Next]_vars

(* ------------------------ one request on its own --------------------- *)

\* a stored User document with limit l that has made m queries this month
UsedUser(l, m) == [NewUser(l) EXCEPT !.totalQueries = m, !.monthlyQueries = m]

\* the store holds users with any usage so far, also above a limit that was lowered
InitSingle ==
  /\ now = FirstPipeNow
  /\ apiKey \in BOOLEAN
  /\ users \in [Users -> {UsedUser(l, m) : l \in 0..MaxLimit, m \in 0..MaxLimit}]
  /\ problems = <<>>
  /\ solutions = <<>>
  /\ runs = [r \in Runs |-> IdleRun]
  /\ q = QIdle
  /\ x = XIdle
  /\ ai = AIdle
  /\ del = DIdle
  /\ req = RIdle

\* the steps of the first request and of the clock
NextSingle ==
  \/ \E u \in Users : Protect(1, u)
  \/ CheckQueryLimit(1)
  \/ CreateProblem(1)
  \/ GenerateSolution(1, PipeGenerated)
  \/ CreateSolution(1)
  \/ ExecuteCode(1)
  \/ SaveResult(1)
  \/ SaveExecFailed(1)
  \/ SaveSolved(1)
  \/ IncrementQueryCount(1)
  \/ Populate(1)
  \/ SaveFailed(1)
  \/ Tick

SpecSingle == InitSingle /\ [][NextSingle]_vars

(* ------------------- one request, any generated answer -------------- *)

\* the providers of the request: the request fails, or is answered with any of
\* the raw answers
AnswerProviders ==
  {[anthropicKey |-> FALSE, ok |-> FALSE, reason |-> NetworkError, answer |-> <<>>]}
    \cup {[anthropicKey |-> FALSE, ok |-> TRUE, reason |-> "", answer |-> Raw(parts)] :
            parts \in PartLists(MaxParts)}

\* what aiService.generateSolution({...}) does with each of them
AnswerGenerated ==
  [provider \in AnswerProviders |-> generateSolution(Undefined, provider)]

\* the store holds new users, the sandbox key is configured
InitAnswers ==
  /\ now = FirstPipeNow
  /\ apiKey = TRUE
  /\ users = [u \in Users |-> NewUser(MaxLimit)]
  /\ problems = <<>>
  /\ solutions = <<>>
  /\ runs = [r \in Runs |-> IdleRun]
  /\ q = QIdle
  /\ x = XIdle
  /\ ai = AIdle
  /\ del = DIdle
  /\ req = RIdle

\* the steps of the first request, made by the first user
NextAnswers ==
  \/ Protect(1, 1)
  \/ CheckQueryLimit(1)
  \/ CreateProblem(1)
  \/ GenerateSolution(1, AnswerGenerated)
  \/ CreateSolution(1)
  \/ ExecuteCode(1)
  \/ SaveResult(1)
  \/ SaveExecFailed(1)
  \/ SaveSolved(1)
  \/ IncrementQueryCount(1)
  \/ Populate(1)
  \/ SaveFailed(1)

SpecAnswers == InitAnswers /\ [][NextAnswers]_vars

(* -------------------- DELETE /api/problems/:id ------------------------ *)

\* the store without the document under id i
Remove(coll, i) == [j \in DOMAIN coll \ {i} |-> coll[j]]

\* the delete request answered with res
DeleteRespond(request, res) == [request EXCEPT !.pc = "done", !.res = res]

\* problem = await Problem.findById(req.params.id), the 404 and 403 answers; the
\* admin route and a user with the admin role pass the ownership test
DeleteFind(id, u, admin) ==
  /\ del.pc = "idle"
  /\ u \in DOMAIN users
  /\ \E ok \in BOOLEAN :
       LET request == [del EXCEPT !.id = id, !.user = u, !.admin = admin]
       IN  del' =
             IF ~ok THEN DeleteRespond(request, "500 Error deleting problem")
             ELSE IF id \notin DOMAIN problems THEN DeleteRespond(request, "404")
             ELSE IF problems[id].user # u /\ ~admin THEN DeleteRespond(request, "403")
             ELSE [request EXCEPT !.problem = problems[id],
                                  !.pc = IF problems[id].solution # 0
                                         THEN "deleteSolution" ELSE "deleteOne"]
  /\ UNCHANGED <<now, apiKey, users, problems, solutions, runs, q, x, ai, req>>

\* if (problem.solution) await Solution.findByIdAndDelete(problem.solution)
DeleteSolution ==
  /\ del.pc = "deleteSolution"
  /\ \E ok \in BOOLEAN :
       IF ok
       THEN /\ solutions' = Remove(solutions, del.problem.solution)
            /\ del' = [del EXCEPT !.pc = "deleteOne"]
       ELSE /\ del' = DeleteRespond(del, "500 Error deleting problem")
            /\ UNCHANGED solutions
  /\ UNCHANGED <<now, apiKey, users, problems, runs, q, x, ai, req>>

\* await problem.deleteOne(); res.json({success: true, ...})
DeleteOne ==
  /\ del.pc = "deleteOne"
  /\ \E ok \in BOOLEAN :
       IF ok
       THEN /\ problems' = Remove(problems, del.id)
            /\ del' = DeleteRespond(del, "200")
       ELSE /\ del' = DeleteRespond(del, "500 Error deleting problem")
            /\ UNCHANGED problems
  /\ UNCHANGED <<now, apiKey, users, solutions, runs, q, x, ai, req>>

\* the steps of the first request and of a delete request
NextDelete ==
  \/ \E u \in Users : Protect(1, u)
  \/ CheckQueryLimit(1)
  \/ CreateProblem(1)
  \/ GenerateSolution(1, PipeGenerated)
  \/ CreateSolution(1)
  \/ ExecuteCode(1)
  \/ SaveResult(1)
  \/ SaveExecFailed(1)
  \/ SaveSolved(1)
  \/ IncrementQueryCount(1)
  \/ Populate(1)
  \/ SaveFailed(1)
  \/ \E id \in Runs, u \in Users, admin \in BOOLEAN : DeleteFind(id, u, admin)
  \/ DeleteSolution
  \/ DeleteOne

SpecDelete == InitAnswers /\ [][NextDelete]_vars

(* ------------- GET /api/problems/:id, PUT /:id/bookmark --------------- *)

\* the ownership test of the GET route: the owner or an admin
mayView(problem, u, admin) == problem.user = u \/ admin

\* the ownership test of the bookmark route letting an admin through
mayBookmark_admin(problem, u, admin) == problem.user = u \/ admin

\* the ownership test of the bookmark route: the owner alone
mayBookmark(problem, u, admin) == problem.user = u

\* a request of the given kind by user u for problem id arrives
Arrive(kind, id, u, admin) ==
  [RIdle EXCEPT !.kind = kind, !.id = id, !.user = u, !.admin = admin,
                !.n = req.n + 1]

\* GET: Problem.findById(...).populate(...), the 404 and 403 answers, and
\* problem.views += 1
GetFind(id, u, admin) ==
  /\ req.pc \in {"idle", "done"}
  /\ req.n < MaxRequests
  /\ u \in DOMAIN users
  /\ \E ok \in BOOLEAN :
       LET request == Arrive("get", id, u, admin)
       IN  req' =
             IF ~ok THEN DeleteRespond(request, "500 Error fetching problem")
             ELSE IF id \notin DOMAIN problems THEN DeleteRespond(request, "404")
             ELSE IF ~mayView(problems[id], u, admin) THEN DeleteRespond(request, "403")
             ELSE [request EXCEPT !.pc = "save", !.base = problems[id],
                                  !.problem = [problems[id] EXCEPT !.views = @ + 1]]
  /\ UNCHANGED <<now, apiKey, users, problems, solutions, runs, q, x, ai, del>>

\* GET: await problem.save(); res.json(...)
GetSave ==
  /\ req.pc = "save"
  /\ req.kind = "get"
  /\ \E ok \in BOOLEAN :
       IF ok /\ req.id \in DOMAIN problems
       THEN /\ problems' = [problems EXCEPT ![req.id] = save(@, req.base, req.problem)]
            /\ req' = DeleteRespond(req, "200")
       ELSE /\ req' = DeleteRespond(req, "500 Error fetching problem")
            /\ UNCHANGED problems
  /\ UNCHANGED <<now, apiKey, users, solutions, runs, q, x, ai, del>>

\* bookmark: Problem.findById, the 404 and 403 answers, and
\* problem.bookmarked = !problem.bookmarked
BookmarkFind(id, u, admin) ==
  /\ req.pc \in {"idle", "done"}
  /\ req.n < MaxRequests
  /\ u \in DOMAIN users
  /\ \E ok \in BOOLEAN :
       LET request == Arrive("bookmark", id, u, admin)
       IN  req' =
             IF ~ok THEN DeleteRespond(request, "500 Error updating bookmark")
             ELSE IF id \notin DOMAIN problems THEN DeleteRespond(request, "404")
             ELSE IF ~mayBookmark(problems[id], u, admin)
             THEN DeleteRespond(request, "403")
             ELSE [request EXCEPT !.pc = "save", !.base = problems[id],
                                  !.problem = [problems[id] EXCEPT
                                                 !.bookmarked = ~@]]
  /\ UNCHANGED <<now, apiKey, users, problems, solutions, runs, q, x, ai, del>>

\* bookmark: await problem.save(); res.json(...)
BookmarkSave ==
  /\ req.pc = "save"
  /\ req.kind = "bookmark"
  /\ \E ok \in BOOLEAN :
       IF ok /\ req.id \in DOMAIN problems
       THEN /\ problems' = [problems EXCEPT ![req.id] = save(@, req.base, req.problem)]
            /\ req' = DeleteRespond(req, "200")
       ELSE /\ req' = DeleteRespond(req, "500 Error updating bookmark")
            /\ UNCHANGED problems
  /\ UNCHANGED <<now, apiKey, users, solutions, runs, q, x, ai, del>>

\* the server process dies: every request being processed is abandoned where it
\* is, the store stays as it was
Crash ==
  /\ \E r \in Runs : runs[r].pc \notin {"idle", "done", "crashed"}
  /\ runs' = [r \in Runs |->
                IF runs[r].pc \in {"idle", "done", "crashed"} THEN runs[r]
                ELSE [runs[r] EXCEPT !.pc = "crashed"]]
  /\ del' = IF del.pc \in {"idle", "done"} THEN del
            ELSE DeleteRespond(del, "no response")
  /\ req' = IF req.pc \in {"idle", "done"} THEN req
            ELSE DeleteRespond(req, "no response")
  /\ UNCHANGED <<now, apiKey, users, problems, solutions, q, x, ai>>

\* the steps of the first request, of the requests for its problem, and a crash
NextRoutes ==
  \/ \E u \in Users : Protect(1, u)
  \/ CheckQueryLimit(1)
  \/ CreateProblem(1)
  \/ GenerateSolution(1, PipeGenerated)
  \/ CreateSolution(1)
  \/ ExecuteCode(1)
  \/ SaveResult(1)
  \/ SaveExecFailed(1)
  \/ SaveSolved(1)
  \/ IncrementQueryCount(1)
  \/ Populate(1)
  \/ SaveFailed(1)
  \/ \E u \in Users, admin \in BOOLEAN : DeleteFind(1, u, admin)
  \/ DeleteSolution
  \/ DeleteOne
  \/ \E u \in Users, admin \in BOOLEAN : GetFind(1, u, admin)
  \/ GetSave
  \/ \E u \in Users, admin \in BOOLEAN : BookmarkFind(1, u, admin)
  \/ BookmarkSave
  \/ Crash

SpecRoutes == InitAnswers /\ [][NextRoutes]_vars

(* -------------------- DELETE /api/admin/users/:id --------------------- *)

\* the position after the problems still to remove were looked at
Upcoming(todo) ==
  IF todo = <<>> THEN "deleteUser"
  ELSE IF Head(todo).solution # 0 THEN "userSolution" ELSE "userProblem"

\* Problem.find({user: u}): the ids and solution references of the problems of u
RECURSIVE ProblemsOf(_, _)
ProblemsOf(u, ids) ==
  IF ids = {} THEN <<>>
  ELSE LET id == CHOOSE i \in ids : \A j \in ids : i <= j
           rest == ProblemsOf(u, ids \ {id})
       IN  IF problems[id].user = u
           THEN <<[id |-> id, solution |-> problems[id].solution]>> \o rest
           ELSE rest

\* user = await User.findById(req.params.id), the 404 and 400 answers
DeleteUserFind(target, admin) ==
  /\ del.pc = "idle"
  /\ admin \in DOMAIN users
  /\ \E ok \in BOOLEAN :
       LET request == [del EXCEPT !.id = target, !.user = admin, !.admin = TRUE]
       IN  del' =
             IF ~ok THEN DeleteRespond(request, "500 Error deleting user")
             ELSE IF target \notin DOMAIN users THEN DeleteRespond(request, "404")
             ELSE IF target = admin THEN DeleteRespond(request, "400")
             ELSE [request EXCEPT !.pc = "findProblems"]
  /\ UNCHANGED <<now, apiKey, users, problems, solutions, runs, q, x, ai, req>>

\* userProblems = await Problem.find({ user: user._id })
DeleteUserProblems ==
  /\ del.pc = "findProblems"
  /\ \E ok \in BOOLEAN :
       del' = IF ok
              THEN LET todo == ProblemsOf(del.id, DOMAIN problems)
                   IN  [del EXCEPT !.todo = todo, !.pc = Upcoming(todo)]
              ELSE DeleteRespond(del, "500 Error deleting user")
  /\ UNCHANGED <<now, apiKey, users, problems, solutions, runs, q, x, ai, req>>

\* in the loop: if (problem.solution) await Solution.findByIdAndDelete(...)
DeleteUserSolution ==
  /\ del.pc = "userSolution"
  /\ \E ok \in BOOLEAN :
       IF ok
       THEN /\ solutions' = Remove(solutions, Head(del.todo).solution)
            /\ del' = [del EXCEPT !.pc = "userProblem"]
       ELSE /\ del' = DeleteRespond(del, "500 Error deleting user")
            /\ UNCHANGED solutions
  /\ UNCHANGED <<now, apiKey, users, problems, runs, q, x, ai, req>>

\* in the loop: await problem.deleteOne()
DeleteUserProblem ==
  /\ del.pc = "userProblem"
  /\ \E ok \in BOOLEAN :
       IF ok
       THEN /\ problems' = Remove(problems, Head(del.todo).id)
            /\ del' = [del EXCEPT !.todo = Tail(@), !.pc = Upcoming(Tail(del.todo))]
       ELSE /\ del' = DeleteRespond(del, "500 Error deleting user")
            /\ UNCHANGED problems
  /\ UNCHANGED <<now, apiKey, users, solutions, runs, q, x, ai, req>>

\* await user.deleteOne(); res.json({success: true, ...})
DeleteUserOne ==
  /\ del.pc = "deleteUser"
  /\ \E ok \in BOOLEAN :
       IF ok
       THEN /\ users' = Remove(users, del.id)
            /\ del' = DeleteRespond(del, "200 User deleted successfully")
       ELSE /\ del' = DeleteRespond(del, "500 Error deleting user")
            /\ UNCHANGED users
  /\ UNCHANGED <<now, apiKey, problems, solutions, runs, q, x, ai, req>>

\* the steps of the first request and of the deletion of a user
NextDeleteUser ==
  \/ \E u \in Users : Protect(1, u)
  \/ CheckQueryLimit(1)
  \/ CreateProblem(1)
  \/ GenerateSolution(1, PipeGenerated)
  \/ CreateSolution(1)
  \/ ExecuteCode(1)
  \/ SaveResult(1)
  \/ SaveExecFailed(1)
  \/ SaveSolved(1)
  \/ IncrementQueryCount(1)
  \/ Populate(1)
  \/ SaveFailed(1)
  \/ \E target \in Users, admin \in Users : DeleteUserFind(target, admin)
  \/ DeleteUserProblems
  \/ DeleteUserSolution
  \/ DeleteUserProblem
  \/ DeleteUserOne

SpecDeleteUser == InitAnswers /\ [][NextDeleteUser]_vars

(* --------------------- requests processed one at a time --------------- *)

\* the store holds users anywhere inside their monthly window
InitSequential ==
  /\ InitSingle
  /\ \A u \in Users : users[u].monthlyQueries <= users[u].queryLimit

\* a request arrives while no other request is being processed
ProtectInTurn(r, u) ==
  /\ \A other \in Runs \ {r} : runs[other].pc \in {"idle", "done"}
  /\ Protect(r, u)

NextSequential ==
  \/ \E r \in Runs, u \in Users : ProtectInTurn(r, u)
  \/ \E r \in Runs : CheckQueryLimit(r)
  \/ \E r \in Runs : CreateProblem(r)
  \/ \E r \in Runs : GenerateSolution(r, PipeGenerated)
  \/ \E r \in Runs : CreateSolution(r)
  \/ \E r \in Runs : ExecuteCode(r)
  \/ \E r \in Runs : SaveResult(r)
  \/ \E r \in Runs : SaveExecFailed(r)
  \/ \E r \in Runs : SaveSolved(r)
  \/ \E r \in Runs : IncrementQueryCount(r)
  \/ \E r \in Runs : Populate(r)
  \/ \E r \in Runs : SaveFailed(r)
  \/ Tick

SpecSequential == InitSequential /\ [][NextSequential]_vars

(* ------------------- the quota methods called directly ---------------- *)

QInit ==
  /\ now = 0
  /\ apiKey = TRUE
  /\ users = [u \in Users |-> NewUser(0)]
  /\ problems = <<>>
  /\ solutions = <<>>
  /\ runs = [r \in Runs |-> IdleRun]
  /\ \E l \in 0..MaxQuotaLimit : q = [QIdle EXCEPT !.user = NewUser(l), !.pre = NewUser(l)]
  /\ x = XIdle
  /\ ai = AIdle
  /\ del = DIdle
  /\ req = RIdle

\* user.canMakeQuery() at the current time; incs counts the increments since the
\* window was last opened with monthlyQueries = 0
QCanMakeQuery ==
  /\ LET c == canMakeQuery(q.user, now)
     IN  q' = [user |-> c.doc, op |-> "canMakeQuery", ret |-> c.ret,
               pre |-> q.user, at |-> now,
               incs |-> IF c.doc # q.user THEN 0 ELSE q.incs]
  /\ UNCHANGED <<now, apiKey, users, problems, solutions, runs, x, ai, del, req>>

\* user.incrementQueryCount() with a save that succeeds
QIncrementQueryCount ==
  /\ q.user.totalQueries < MaxQueries
  /\ q' = [user |-> incrementQueryCount(q.user), op |-> "incrementQueryCount",
           ret |-> FALSE, pre |-> q.user, at |-> now, incs |-> q.incs + 1]
  /\ UNCHANGED <<now, apiKey, users, problems, solutions, runs, x, ai, del, req>>

\* time passes
QTick ==
  /\ now < MaxNow
  /\ now' = now + 1
  /\ UNCHANGED <<apiKey, users, problems, solutions, runs, q, x, ai, del, req>>

QNext == QCanMakeQuery \/ QIncrementQueryCount \/ QTick

SpecQuota == QInit /\ [][QNext]_vars

(* ------------------ CodeExecutor methods called directly -------------- *)

\* the example of a dangerous program: os.system('rm -rf /')
OsSystemRm ==
  <<"o", "s", ".", "s", "y", "s", "t", "e", "m", "(", "'", "r", "m", " ", "-", "r",
    "f", " ", "/", "'", ")">>

\* a harmless program: print(6)
PrintSix == <<"p", "r", "i", "n", "t", "(", "6", ")">>

\* a run of n blanks
Blanks(n) == [i \in 1..n |-> " "]

\* beginnings of the code texts of the calls
CodeHeads ==
  {<<"e", "x", "e", "c">>,
   <<"E", "v", "a", "l">>,
   <<"s", "y", "s", "t", "e", "m">>,
   <<"p", "o", "p", "e", "n">>,
   <<"o", "s", ".", "s", "y", "s", "t", "e", "m">>,
   <<"S", "u", "b", "P", "r", "o", "c", "e", "s", "s", ".">>,
   <<"i", "m", "p", "o", "r", "t">>,
   <<"r", "e", "q", "u", "i", "r", "e">>,
   <<"p", "r", "i", "n", "t">>,
   <<"e", "x", "e", "c", "u", "t", "e">>}

\* endings of the code texts of the calls
CodeTails ==
  {<<>>,
   <<"(">>,
   <<"o", "s">>,
   <<"(", "\"", "c", "h", "i", "l", "d", "_", "p", "r", "o", "c", "e", "s", "s", "\"",
  ")">>,
   <<"(", "'", "c", "h", "i", "l", "d", "_", "p", "r", "o", "c", "e", "s", "s", "'", ")">>,
   <<"(", "6", ")">>}

\* the code texts validateCode is called with: nothing, blanks, the example, and
\* every head and tail with up to MaxSpaces blanks between them, alone or after
\* another character
CodeTexts ==
  {<<>>, OsSystemRm}
    \cup {Blanks(n) : n \in 1..MaxSpaces}
    \cup {before \o head \o Blanks(n) \o tail :
            before \in {<<>>, <<"_">>}, head \in CodeHeads,
            n \in 0..MaxSpaces, tail \in CodeTails}

\* the code texts executeCode is called with
ExecutedTexts == {<<>>, Blanks(1), PrintSix, OsSystemRm}

\* the languages the calls name
ExecutorLanguages == {"", "python", "Python", "cobol"}

\* the sandboxes of the calls: one that rejects the submission, and those that
\* accept it, reject fetch number failAt (0: none), answer "In Queue" to the first
\* `queued` fetches, "Processing" up to fetch number `busy`, then `final`
Sandboxes ==
  {[PromptSandbox(AcceptedRaw) EXCEPT !.submitOk = FALSE]}
    \cup {[submitOk |-> TRUE, failAt |-> f, queued |-> w, busy |-> b, final |-> d] :
            f \in 0..(MaxBusy + 1), w \in 0..MaxBusy, b \in 0..MaxBusy, d \in FinalRaws}

XInit ==
  /\ now = 0
  /\ apiKey = TRUE
  /\ users = [u \in Users |-> NewUser(0)]
  /\ problems = <<>>
  /\ solutions = <<>>
  /\ runs = [r \in Runs |-> IdleRun]
  /\ q = QIdle
  /\ x = XIdle
  /\ ai = AIdle
  /\ del = DIdle
  /\ req = RIdle

\* codeExecutor.executeCode(code, language): code goes into the submission as
\* source_code without being looked at
XExecuteCode ==
  /\ x.op = "none"
  /\ \E key \in BOOLEAN, code \in ExecutedTexts, language \in ExecutorLanguages,
        sb \in Sandboxes :
       /\ sb.queued <= sb.busy
       /\ x' = [op |-> "executeCode", key |-> key, code |-> code,
                language |-> language, sb |-> sb,
                out |-> executeCode(key, language, sb)]
  /\ UNCHANGED <<now, apiKey, users, problems, solutions, runs, q, ai, del, req>>

\* codeExecutor.validateCode(code, language): it sends nothing to the sandbox
XValidateCode ==
  /\ x.op = "none"
  /\ \E code \in CodeTexts, language \in ExecutorLanguages \cup {Undefined} :
       LET v == validateCode(code, language)
       IN  x' = [XIdle EXCEPT !.op = "validateCode", !.code = code,
                              !.language = language,
                              !.out = [NoOutcome EXCEPT !.threw = v.threw,
                                                        !.message = v.message]]
  /\ UNCHANGED <<now, apiKey, users, problems, solutions, runs, q, ai, del, req>>

\* the answers of the sandbox that formatResult is handed: any status id, and
\* each stream absent, empty or with text
RawResults ==
  {[status_id |-> id, stdout |-> out, stderr |-> err, compile_output |-> comp,
    time |-> "0.01", memory |-> "3456", exit_code |-> "0"] :
     id \in 0..MaxStatusId, out \in {Undefined, "", "6\n"},
     err \in {Undefined, "", "Traceback"}, comp \in {Undefined, "", "SyntaxError"}}

\* codeExecutor.formatResult(rawResult)
XFormatResult ==
  /\ x.op = "none"
  /\ \E rawResult \in RawResults :
       x' = [XIdle EXCEPT !.op = "formatResult", !.sb = PromptSandbox(rawResult),
                          !.out = [NoOutcome EXCEPT !.result = formatResult(rawResult)]]
  /\ UNCHANGED <<now, apiKey, users, problems, solutions, runs, q, ai, del, req>>

\* the caller has its answer
XReturn ==
  /\ x.op # "none"
  /\ x' = XIdle
  /\ UNCHANGED <<now, apiKey, users, problems, solutions, runs, q, ai, del, req>>

XNext == XExecuteCode \/ XValidateCode \/ XFormatResult \/ XReturn

SpecExecutor == XInit /\ [][XNext]_vars

(* -------------------- AIService methods called directly --------------- *)

AInit ==
  /\ now = 0
  /\ apiKey = TRUE
  /\ users = [u \in Users |-> NewUser(0)]
  /\ problems = <<>>
  /\ solutions = <<>>
  /\ runs = [r \in Runs |-> IdleRun]
  /\ q = QIdle
  /\ x = XIdle
  /\ ai = AIdle
  /\ del = DIdle
  /\ req = RIdle

\* aiService.parseResponse(rawResponse)
AParseResponse ==
  /\ ai.op = "none"
  /\ \E parts \in PartLists(MaxParts) :
       LET parsed == parseResponse(Raw(parts))
       IN  ai' = [AIdle EXCEPT !.op = "parseResponse", !.parts = parts,
                              !.out.explanation = parsed.explanation,
                              !.out.code = parsed.code,
                              !.out.steps = parsed.steps]
  /\ UNCHANGED <<now, apiKey, users, problems, solutions, runs, q, x, del, req>>

\* aiService.generateSolution(problem, aiModel)
AGenerateSolution ==
  /\ ai.op = "none"
  /\ \E aiModel \in ModelNames, provider \in Providers :
       ai' = [AIdle EXCEPT !.op = "generateSolution", !.aiModel = aiModel,
                          !.provider = provider,
                          !.out = generateSolution(aiModel, provider)]
  /\ UNCHANGED <<now, apiKey, users, problems, solutions, runs, q, x, del, req>>

\* the caller has its answer
AReturn ==
  /\ ai.op # "none"
  /\ ai' = AIdle
  /\ UNCHANGED <<now, apiKey, users, problems, solutions, runs, q, x, del, req>>

ANext == AParseResponse \/ AGenerateSolution \/ AReturn

SpecAI == AInit /\ [][ANext]_vars

(* ------------------------- properties: pipeline ----------------------- *)

\* the run logged event ev with outcome ok
Has(run, ev, ok) == \E i \in DOMAIN run.hist : run.hist[i] = [ev |-> ev, ok |-> ok]

\* the run started event ev
Attempted(run, ev) == \E i \in DOMAIN run.hist : run.hist[i].ev = ev

\* the run has answered its request
Finished(run) == run.pc = "done"

\* C1: in a submission run solved and failed are terminal: the stored status of a
\* problem changes only from processing to solved or from processing to failed, and
\* no later step of the run, nor a failure of one, changes a solved or failed status.
C1_StatusTerminal ==
  [][\A p \in DOMAIN problems \cap DOMAIN problems' :
       problems'[p].status # problems[p].status
         => /\ problems[p].status = "processing"
            /\ problems'[p].status \in {"solved", "failed"}]_vars

\* C2: in every stored state of a Problem, status = solved exactly when the
\* solution reference is set.
C2_SolvedIffSolution ==
  \A p \in DOMAIN problems :
    (problems[p].status = "solved") <=> (problems[p].solution # 0)

\* C3: a run whose Solution Generator call failed ends with its problem failed, no
\* Solution record, no Execution Client call and no increment of the user's counters.
C3_GeneratorFailure ==
  \A r \in Runs :
    (Finished(runs[r]) /\ Has(runs[r], "ai", FALSE))
      => /\ problems[r].status = "failed"
         /\ r \notin DOMAIN solutions
         /\ ~Attempted(runs[r], "execute")
         /\ ~Attempted(runs[r], "increment")

\* C4: a run whose Solution Generator succeeded and whose Execution Client call
\* failed ends with its problem solved and its Solution carrying executionResult
\* {status: "Execution Failed", error: the failure message}.
C4_ExecutionFailureDegrades ==
  \A r \in Runs :
    (Finished(runs[r]) /\ Has(runs[r], "ai", TRUE) /\ Has(runs[r], "execute", FALSE))
      => /\ problems[r].status = "solved"
         /\ solutions[r].executionResult.status = "Execution Failed"
         /\ solutions[r].executionResult.error = runs[r].execMessage

\* C5: a run increments the user's counters only after its problem was written as
\* solved, and a run that incremented the counters does not end with its problem
\* failed.
C5_IncrementOnlyWhenSolved ==
  \A r \in Runs :
    Has(runs[r], "increment", TRUE)
      => /\ Has(runs[r], "solvedWrite", TRUE)
         /\ Finished(runs[r]) => problems[r].status # "failed"

\* the place of an event in the order admission check, Problem creation, AI call,
\* Solution creation, execution, execution-result write, status write, quota
\* increment (0: the event is not one of them)
Rank(ev) ==
  CASE ev = "admission" -> 1
    [] ev = "create" -> 2
    [] ev = "ai" -> 3
    [] ev = "solution" -> 4
    [] ev = "execute" -> 5
    [] ev = "resultWrite" -> 6
    [] ev \in {"solvedWrite", "failedWrite"} -> 7
    [] ev = "increment" -> 8
    [] OTHER -> 0

\* the event took place: a provider, sandbox or admission call was made, or a
\* storage write was accepted
Occurred(e) == e.ok \/ e.ev \in {"admission", "ai", "execute"}

\* C6: the events of one run occur in the order admission check, Problem creation,
\* AI call, Solution creation, execution and its result write, final status write,
\* quota increment: no event of the list follows one that is later in the list.
C6_EventOrder ==
  \A r \in Runs :
    \A i, j \in DOMAIN runs[r].hist :
      LET a == runs[r].hist[i]
          b == runs[r].hist[j]
      IN  (i < j /\ Occurred(a) /\ Occurred(b) /\ Rank(a.ev) # 0 /\ Rank(b.ev) # 0)
            => Rank(a.ev) <= Rank(b.ev)

\* C7: every run that created a Problem record and has answered its request left
\* that problem with stored status solved or failed.
C7_EndsTerminal ==
  \A r \in Runs :
    (Finished(runs[r]) /\ Has(runs[r], "create", TRUE))
      => problems[r].status \in {"solved", "failed"}

\* C8: a submission denied by the quota check writes nothing and calls nothing: the
\* denying step leaves the three collections as they are, and the denied run has
\* created no Problem or Solution and made no provider or sandbox call.
C8_DenialHasNoEffect ==
  /\ [](\A r \in Runs :
          runs[r].res = "429"
            => /\ Finished(runs[r])
               /\ r \notin DOMAIN problems
               /\ r \notin DOMAIN solutions
               /\ runs[r].hist = <<[ev |-> "admission", ok |-> FALSE]>>)
  /\ [][\A r \in Runs :
          (runs[r].res # "429" /\ runs'[r].res = "429")
            => /\ users' = users
               /\ problems' = problems
               /\ solutions' = solutions]_vars

\* C8 witness: a request was denied in a month other than that of the stored reset
\* date, so the denying call reset the in-memory document
C8_Witness ==
  \E r \in Runs :
    /\ runs[r].res = "429"
    /\ runs[r].reqUser # runs[r].reqUserBase
    /\ users[runs[r].user] = runs[r].reqUserBase

(* ---------------------- properties: quota methods --------------------- *)

\* the calendar month and year of two clock values are the same
SameCalendarMonth(a, b) ==
  /\ (a \div TicksPerMonth) % MonthsPerYear = (b \div TicksPerMonth) % MonthsPerYear
  /\ a \div (TicksPerMonth * MonthsPerYear) = b \div (TicksPerMonth * MonthsPerYear)

\* C9: canMakeQuery first applies the lazy reset (monthlyQueries := 0 and
\* lastResetDate := now when the current month or year differs from that of
\* lastResetDate, both left alone otherwise) and then returns monthlyQueries <
\* queryLimit on the value after the reset.
C9_CanMakeQuery ==
  q.op = "canMakeQuery"
    => /\ IF SameCalendarMonth(q.at, q.pre.lastResetDate)
          THEN /\ q.user.monthlyQueries = q.pre.monthlyQueries
               /\ q.user.lastResetDate = q.pre.lastResetDate
          ELSE /\ q.user.monthlyQueries = 0
               /\ q.user.lastResetDate = q.at
       /\ q.ret = (q.user.monthlyQueries < q.pre.queryLimit)

\* C9 witness: a call made in another month on a used-up window reset it and admitted
C9_Witness ==
  /\ q.op = "canMakeQuery"
  /\ ~SameCalendarMonth(q.at, q.pre.lastResetDate)
  /\ q.pre.monthlyQueries >= q.pre.queryLimit
  /\ q.pre.monthlyQueries > 0
  /\ q.ret

\* C10: with queryLimit L > 0 and a window opened with monthlyQueries 0, after L
\* increments in the window's calendar month canMakeQuery returns false, and a
\* canMakeQuery in another calendar month returns true and leaves monthlyQueries 0.
C10_LimitAndRollover ==
  (q.op = "canMakeQuery" /\ q.pre.queryLimit > 0)
    => /\ (SameCalendarMonth(q.at, q.pre.lastResetDate) /\ q.incs = q.pre.queryLimit)
            => ~q.ret
       /\ ~SameCalendarMonth(q.at, q.pre.lastResetDate)
            => (q.ret /\ q.user.monthlyQueries = 0)

\* C10 witness: limit 3, three increments were refused a fourth query, then the
\* month changed and the next call admitted with the window at 0
C10_Witness ==
  /\ q.op = "canMakeQuery"
  /\ q.pre.queryLimit = 3
  /\ q.pre.monthlyQueries = 3
  /\ q.pre.totalQueries = 3
  /\ ~SameCalendarMonth(q.at, q.pre.lastResetDate)
  /\ q.ret
  /\ q.user.monthlyQueries = 0

(* ------------------------ properties: admission ----------------------- *)

\* C11: when a user's submissions are processed one at a time and queryLimit is not
\* lowered, the stored monthlyQueries never exceeds queryLimit.
C11_WithinLimit ==
  \A u \in Users : users[u].monthlyQueries <= users[u].queryLimit

\* C11 witness: a user with limit 1 had one request processed, which used the limit
\* up, and the next request denied
C11_Witness ==
  \E r1, r2 \in Runs :
    /\ runs[r1].user = runs[r2].user
    /\ runs[r1].res = "201"
    /\ runs[r2].res = "429"
    /\ runs[r2].reqUserBase.monthlyQueries = 1
    /\ users[runs[r1].user].monthlyQueries = 1
    /\ users[runs[r1].user].queryLimit = 1

\* C12: while no run of a user has recorded usage and the stored monthlyQueries is
\* queryLimit - 1, every run of that user that has made its admission check was
\* admitted, however many of them there are; so two concurrent submissions can both
\* be admitted and processed.
C12_BothAdmitted ==
  \A u \in Users :
    (/\ users[u].monthlyQueries = users[u].queryLimit - 1
     /\ \A r \in Runs : runs[r].user = u => ~Has(runs[r], "increment", TRUE))
      => \A r \in Runs :
           (runs[r].user = u /\ Attempted(runs[r], "admission"))
             => Has(runs[r], "admission", TRUE)

\* C12 witness: two requests of a user with limit 1 were both answered 201 in the
\* month of the stored reset date, and each recorded usage on the counters it had
\* loaded before the other's was recorded
C12_Witness ==
  \E r1, r2 \in Runs :
    /\ r1 # r2
    /\ runs[r1].user = runs[r2].user
    /\ runs[r1].res = "201"
    /\ runs[r2].res = "201"
    /\ users[runs[r1].user].queryLimit = 1
    /\ users[runs[r1].user].lastResetDate = 0
    /\ runs[r1].reqUser.totalQueries = 1
    /\ runs[r2].reqUser.totalQueries = 1

\* C13: each incrementQueryCount call raises totalQueries and monthlyQueries of the
\* user document by exactly 1, leaves its lastResetDate and queryLimit as they were,
\* and, when its save is accepted, the stored record is the document.
C13_IncrementQueryCount ==
  [][\A r \in Runs :
       (runs[r].pc = "increment" /\ runs'[r].pc # "increment")
         => LET before == runs[r].reqUser
                after == runs'[r].reqUser
            IN  /\ after.totalQueries = before.totalQueries + 1
                /\ after.monthlyQueries = before.monthlyQueries + 1
                /\ after.lastResetDate = before.lastResetDate
                /\ after.queryLimit = before.queryLimit
                /\ Has(runs'[r], "increment", TRUE) => users'[runs[r].user] = after
                /\ ~Has(runs'[r], "increment", TRUE) => users' = users]_vars

\* C13 witness: usage was recorded in a new month on a user who had used one query
\* before: the stored record has totalQueries 2 and monthlyQueries 1
C13_Witness ==
  \E r \in Runs :
    /\ Has(runs[r], "increment", TRUE)
    /\ users[runs[r].user] = runs[r].reqUser
    /\ runs[r].reqUser.totalQueries = 2
    /\ runs[r].reqUser.monthlyQueries = 1

\* C14: a user whose queryLimit is 0 is never admitted, whatever the counters and
\* the month: the admission check of every such request answers 429 (the quota
\* rejection) and the request does nothing else.
C14_ZeroLimit ==
  \A r \in Runs :
    (Attempted(runs[r], "admission") /\ runs[r].reqUser.queryLimit = 0)
      => /\ runs[r].res = "429"
         /\ runs[r].hist = <<[ev |-> "admission", ok |-> FALSE]>>
         /\ ~canMakeQuery(runs[r].reqUser, now).ret

\* C14 witness: a user with limit 0 and a used counter was denied in a month after
\* that of the stored reset date (the call reset the counter to 0 and still denied)
C14_Witness ==
  \E r \in Runs :
    /\ runs[r].res = "429"
    /\ runs[r].reqUser.queryLimit = 0
    /\ runs[r].reqUserBase.monthlyQueries > 0
    /\ runs[r].reqUser.monthlyQueries = 0

(* ---------------------- properties: CodeExecutor ---------------------- *)

\* the call is an executeCode call that got as far as the submission request
Submitting ==
  /\ x.op = "executeCode"
  /\ x.key
  /\ toLowerCase(x.language) \in DOMAIN languageIds

\* C15: when the sandbox reports a busy status (id 1 or 2) on every fetch,
\* executeCode makes the initial fetch and exactly 10 polls (11 fetches), then
\* returns the formatted still-busy result and does not throw.
C15_PollCeiling ==
  (Submitting /\ x.sb.submitOk /\ x.sb.busy >= 11 /\ x.sb.failAt \notin 1..11)
    => /\ ~x.out.threw
       /\ x.out.submits = 1
       /\ x.out.fetches = 11
       /\ x.out.result = formatResult(IF x.sb.queued >= 11 THEN QueuedRaw ELSE BusyRaw)
       /\ x.out.result.status \in {"In Queue", "Processing"}

\* C15 witness: a job still queued at the third fetch and processing from then on
\* was fetched 11 times and returned as "Processing"
C15_Witness ==
  /\ x.op = "executeCode"
  /\ x.sb.queued = 2
  /\ x.sb.busy = 12
  /\ ~x.out.threw
  /\ x.out.fetches = 11
  /\ x.out.result.statusId = 2

\* C16: polling stops at the first fetch whose status is not busy: a job that leaves
\* the busy states at fetch k <= 11 is fetched exactly k times and the returned
\* result is built from the answer to fetch k.
C16_StopsAtFirstResult ==
  (Submitting /\ x.sb.submitOk /\ x.sb.busy + 1 <= 11
     /\ x.sb.failAt \notin 1..(x.sb.busy + 1))
    => /\ ~x.out.threw
       /\ x.out.fetches = x.sb.busy + 1
       /\ x.out.result = formatResult(x.sb.final)
       /\ x.out.result.statusId >= 3

\* C16 witness: a job accepted at the 11th fetch was fetched 11 times and returned
\* as "Accepted"
C16_Witness ==
  /\ x.op = "executeCode"
  /\ x.sb.busy = 10
  /\ ~x.out.threw
  /\ x.out.fetches = 11
  /\ x.out.result.status = "Accepted"

\* C17: whenever executeCode sends code to the sandbox, validateCode accepts that
\* code; code that validateCode rejects is never submitted.
C17_ValidatedBeforeSubmission ==
  (x.op = "executeCode" /\ x.out.submits > 0)
    => ~validateCode(x.code, x.language).threw

\* C18: validateCode rejects every call whose language is not a key of languageIds,
\* for any code that is not empty.
C18_UnsupportedLanguageRejected ==
  (x.op = "validateCode" /\ ~isBlank(x.code) /\ x.language \notin DOMAIN languageIds)
    => x.out.threw

\* C19: validateCode rejects every code text that matches one of dangerousPatterns,
\* os.system('rm -rf /') with language python among them, and sends nothing to the
\* sandbox on any input.
C19_BlocklistRejected ==
  x.op = "validateCode"
    => /\ (\E pattern \in dangerousPatterns : test(pattern, x.code)) => x.out.threw
       /\ (x.code = OsSystemRm /\ x.language = "python")
            => /\ x.out.threw
               /\ x.out.message = "Code contains potentially dangerous operations"
       /\ x.out.submits = 0
       /\ x.out.fetches = 0

\* C19 witness: os.system('rm -rf /') with language python was rejected as dangerous
C19_Witness ==
  /\ x.op = "validateCode"
  /\ x.code = OsSystemRm
  /\ x.language = "python"
  /\ x.out.threw
  /\ x.out.message = "Code contains potentially dangerous operations"

\* C20: when the submission request or a status fetch fails at transport level,
\* executeCode throws an error whose message carries the cause, returns nothing, and
\* the failed request is the last one it sent.
C20_TransportFailure ==
  Submitting
    => /\ ~x.sb.submitOk
            => /\ x.out.threw
               /\ x.out.message = "Code execution failed: " \o NetworkError
               /\ x.out.submits = 1
               /\ x.out.fetches = 0
       /\ (x.sb.submitOk /\ x.sb.failAt \in 1..11 /\ x.sb.failAt <= x.sb.busy + 1)
            => /\ x.out.threw
               /\ x.out.message =
                    "Code execution failed: Failed to get submission result: "
                      \o NetworkError
               /\ x.out.submits = 1
               /\ x.out.fetches = x.sb.failAt

\* C20 witness: the third fetch of a job that would have stayed busy failed, and
\* the call threw after three fetches
C20_Witness ==
  /\ x.op = "executeCode"
  /\ x.sb.failAt = 3
  /\ x.sb.busy = 12
  /\ x.out.threw
  /\ x.out.fetches = 3

(* ------------------------ properties: AIService ----------------------- *)

\* the fenced code blocks among the parts of an answer, in document order
BlocksOf(parts) == SelectSeq(parts, LAMBDA part : part.block)

\* the language parseResponse is to report for a block
LanguageOf(block) == IF block.tag = <<>> THEN <<"t", "e", "x", "t">> ELSE block.tag

C24_StepNumbers ==
  \A r \in Runs :
    LET steps == runs[r].aiResult.steps
    IN  /\ \A i \in DOMAIN steps : steps[i].stepNumber = i
        /\ r \in DOMAIN solutions => solutions[r].steps = steps

\* C24 witness: the stored Solution of an answer whose lines are numbered 1, 12
\* and, inside its code block, 7
C24_Witness ==
  /\ 1 \in DOMAIN solutions
  /\ solutions[1].code.snippet = <<"7", ".", " ", "x">>
  /\ solutions[1].steps =
       <<[stepNumber |-> 1, description |-> <<"R", "e", "a", "d">>],
         [stepNumber |-> 2, description |-> <<"A", "d", "d">>],
         [stepNumber |-> 3, description |-> <<"x">>]>>

\* the parts of an answer before its first fenced code block
RECURSIVE BeforeFirstBlock(_)
BeforeFirstBlock(parts) ==
  IF parts = <<>> \/ Head(parts).block THEN <<>>
  ELSE <<Head(parts)>> \o BeforeFirstBlock(Tail(parts))

\* C25: parseResponse's explanation is the raw text strictly before the first
\* fence, trimmed, when the text has a fenced code block, wherever that fence is
\* (also at the very start), and the first three lines of the raw text, trimmed,
\* when it has none.
C25_Explanation ==
  ai.op = "parseResponse"
    => ai.out.explanation =
         IF BlocksOf(ai.parts) # <<>>
         THEN trim(Raw(BeforeFirstBlock(ai.parts)))
         ELSE trim(join(slice(split(Raw(ai.parts)), 3)))

\* C26: generateSolution sends at most one request to the providers, and when the
\* request it sent fails it throws with the reason of the failure in the message.
C26_NoRetry ==
  ai.op = "generateSolution"
    => /\ ai.out.openai + ai.out.anthropic <= 1
       /\ (ai.out.openai + ai.out.anthropic = 1 /\ ~ai.provider.ok)
            => /\ ai.out.threw
               /\ ai.out.message = "AI service error: " \o ai.provider.reason

\* C26 witness: the request to the primary provider failed
C26_Witness ==
  /\ ai.op = "generateSolution"
  /\ ai.aiModel = "gpt-4"
  /\ ~ai.provider.ok
  /\ ai.out.threw
  /\ ai.out.openai = 1
  /\ ai.out.anthropic = 0
  /\ ai.out.message = "AI service error: Network Error"

\* the model named is one of the claude models
ClaudeFamily(aiModel) == aiModel \in {"claude-3", "claude-2"}

\* C27: generateSolution sends its request to the secondary provider exactly when
\* the model named is a claude model, and else to the primary one; with a claude
\* model named and no key configured for the secondary provider it throws the
\* configuration error and sends no request to either provider.
C27_Routing ==
  ai.op = "generateSolution"
    => /\ (ClaudeFamily(ai.aiModel) /\ ai.provider.anthropicKey)
            => (ai.out.anthropic = 1 /\ ai.out.openai = 0)
       /\ ~ClaudeFamily(ai.aiModel) => (ai.out.openai = 1 /\ ai.out.anthropic = 0)
       /\ (ClaudeFamily(ai.aiModel) /\ ~ai.provider.anthropicKey)
            => /\ ai.out.threw
               /\ ai.out.message = "Anthropic API key not configured"
               /\ ai.out.openai = 0
               /\ ai.out.anthropic = 0

\* C27 witness: claude-2 named, no key, and a primary provider that would answer
C27_Witness ==
  /\ ai.op = "generateSolution"
  /\ ai.aiModel = "claude-2"
  /\ ~ai.provider.anthropicKey
  /\ ai.provider.ok
  /\ ai.out.threw
  /\ ai.out.openai = 0
  /\ ai.out.anthropic = 0

(* ---------------------- properties: formatResult ---------------------- *)

\* a stream of the sandbox answer carries text
Given(stream) == stream \notin {"", Undefined}

\* C28: formatResult maps status id 3 to "Accepted", each id in 1..14 to its label
\* of the table (no two ids share one) and every other id to "Unknown"; statusId
\* is the raw id, output is stdout, and error is stderr or, when stderr is empty,
\* the compile output.
C28_FormatResult ==
  x.op = "formatResult"
    => LET raw == x.sb.final
           out == x.out.result
       IN  /\ raw.status_id = 3 => out.status = "Accepted"
           /\ raw.status_id \in 1..14 => out.status = statusMap[raw.status_id]
           /\ raw.status_id \notin 1..14 => out.status = "Unknown"
           /\ \A i, j \in 1..14 : statusMap[i] = statusMap[j] => i = j
           /\ \A i \in 1..14 : statusMap[i] # "Unknown"
           /\ out.statusId = raw.status_id
           /\ out.output = IF Given(raw.stdout) THEN raw.stdout ELSE ""
           /\ out.error = IF Given(raw.stderr) THEN raw.stderr
                          ELSE IF Given(raw.compile_output) THEN raw.compile_output
                          ELSE ""

\* C28 witness: a program that did not compile, with an empty stderr
C28_Witness ==
  /\ x.op = "formatResult"
  /\ x.sb.final.status_id = 6
  /\ x.sb.final.stderr = ""
  /\ x.sb.final.compile_output = "SyntaxError"
  /\ x.out.result.status = "Compilation Error"
  /\ x.out.result.statusId = 6
  /\ x.out.result.error = "SyntaxError"

(* ------------------ properties: execution in the run ------------------ *)

\* the run's answer has a code snippet and its request named a language
Executable(run) == run.aiResult.code.snippet # <<>> /\ run.language # Undefined

\* C21: a run calls the Execution Client exactly when the generated solution has a
\* non-empty snippet and the request named a language; when the call has returned
\* a result, the stored Solution's executionResult is that result, and when no call
\* was made the stored Solution has no executionResult.
C21_ExecutionAttached ==
  \A r \in Runs :
    /\ Attempted(runs[r], "execute") => Executable(runs[r])
    /\ (Has(runs[r], "solution", TRUE) /\ Executable(runs[r]))
         => (Attempted(runs[r], "execute") \/ runs[r].pc = "execute")
    /\ (Has(runs[r], "execute", TRUE) /\ Finished(runs[r]) /\ r \in DOMAIN solutions)
         => solutions[r].executionResult = runs[r].returned
    /\ (~Attempted(runs[r], "execute") /\ r \in DOMAIN solutions)
         => solutions[r].executionResult = NoExecutionResult

\* what parseResponse makes of the example answer
ExampleParsed == parseResponse(Raw(ExampleParts))

\* the run is the end-to-end example: an admitted python submission answered with
\* one python block and three numbered lines, executed with status 3, and answered
EndToEnd(run) ==
  /\ Finished(run)
  /\ Has(run, "admission", TRUE)
  /\ run.language = "python"
  /\ Has(run, "ai", TRUE)
  /\ run.aiResult.code = ExampleParsed.code
  /\ run.aiResult.steps = ExampleParsed.steps
  /\ Has(run, "execute", TRUE)
  /\ run.returned.statusId = 3

\* C29: the end-to-end example leaves its Problem solved and a Solution with
\* code.language "python", three steps numbered 1..3 and executionResult.status
\* "Accepted", and the counters of a user who submitted nothing else are both 1
\* greater than before, that is 1.
C29_EndToEnd ==
  \A r \in Runs :
    EndToEnd(runs[r])
      => /\ r \in DOMAIN problems
         /\ problems[r].status = "solved"
         /\ r \in DOMAIN solutions
         /\ solutions[r].code.language = PythonTag
         /\ Len(solutions[r].steps) = 3
         /\ \A i \in 1..3 : solutions[r].steps[i].stepNumber = i
         /\ solutions[r].executionResult.status = "Accepted"
         /\ (\A other \in Runs \ {r} : runs[other].user # runs[r].user)
              => /\ users[runs[r].user].totalQueries = 1
                 /\ users[runs[r].user].monthlyQueries = 1

(* ------------------------ properties: deletion ------------------------ *)

\* no request is being processed
Quiet ==
  /\ \A r \in Runs : runs[r].pc \in {"idle", "done"}
  /\ del.pc \in {"idle", "done"}

\* C30: once the submissions and deletions issued have been answered, also when a
\* deletion was issued while the run of its problem was in flight, every stored
\* Solution names a Problem that exists.
C30_NoOrphanSolution ==
  Quiet => \A s \in DOMAIN solutions : solutions[s].problem \in DOMAIN problems

(* ------------------ properties: executeCode preconditions ------------- *)

C37_Idempotent ==
  [][(q' # q /\ q'.op = "canMakeQuery")
       => /\ q'.user.totalQueries = q.user.totalQueries
          /\ q'.user.queryLimit = q.user.queryLimit
          /\ (q.op = "canMakeQuery" /\ SameCalendarMonth(q.at, q'.at))
               => (q'.ret = q.ret /\ q'.user = q.user)]_vars

\* C37 witness: a call later in the month of the last reset, on a used-up window,
\* that refused and changed nothing
C37_Witness ==
  /\ q.op = "canMakeQuery"
  /\ q.pre = q.user
  /\ q.at # q.user.lastResetDate
  /\ SameCalendarMonth(q.at, q.user.lastResetDate)
  /\ q.user.totalQueries > 0
  /\ ~q.ret

(* ------------------- properties: runs side by side -------------------- *)

\* the document stored under id i, if any
Doc(coll, i) == IF i \in DOMAIN coll THEN <<coll[i]>> ELSE <<>>

\* C33: a step of a submission run, whatever its outcome, changes no quota
\* document but that of the run's own user, no Problem or Solution but the run's
\* own, and no other run; so what a run reads is written by that run and by runs
\* of its own user alone.
C33_NoInterference ==
  [][\A r \in Runs :
       runs'[r] # runs[r]
         => /\ \A u \in Users \ {runs'[r].user} : users'[u] = users[u]
            /\ \A other \in Runs \ {r} :
                 /\ Doc(problems', other) = Doc(problems, other)
                 /\ Doc(solutions', other) = Doc(solutions, other)
                 /\ runs'[other] = runs[other]]_vars

\* C33 witness: the runs of two users have been answered, one with 201 and one
\* with a failure; the first user's usage is recorded and the second's is not
C33_Witness ==
  \E r1, r2 \in Runs :
    /\ runs[r1].user # 0
    /\ runs[r2].user # 0
    /\ runs[r1].user # runs[r2].user
    /\ runs[r1].res = "201"
    /\ runs[r2].res = "500 Failed to generate solution"
    /\ users[runs[r1].user].totalQueries = 1
    /\ users[runs[r2].user].totalQueries = 0
    /\ problems[r1].status = "solved"
    /\ problems[r2].status = "failed"

\* C34: when all runs of a user have been answered 201 with their problems stored
\* solved, in the calendar month of the user's reset date, the stored totalQueries
\* and monthlyQueries have grown by the number of those runs (from 0).
C34_NoLostIncrement ==
  \A u \in Users :
    LET mine == {r \in Runs : runs[r].user = u}
    IN  (/\ mine # {}
         /\ \A r \in mine : /\ runs[r].res = "201"
                            /\ problems[r].status = "solved"
                            /\ runs[r].reqUser.lastResetDate = 0)
          => /\ users[u].totalQueries = Cardinality(mine)
             /\ users[u].monthlyQueries = Cardinality(mine)

\* C35: the Solution of every answered run is referenced by the solution field of
\* the Problem it points back to, and a Problem whose run ended failed has no
\* Solution.
C35_NoUnreferencedSolution ==
  \A s \in DOMAIN solutions :
    Finished(runs[s])
      => /\ solutions[s].problem \in DOMAIN problems
         /\ problems[solutions[s].problem].solution = s
         /\ problems[solutions[s].problem].status # "failed"

(* ------------- properties: requests for a problem and its run --------- *)

\* the run has created its Problem and has neither written its final status nor
\* stopped
Active(run) ==
  /\ Has(run, "create", TRUE)
  /\ run.pc \notin {"done", "crashed"}
  /\ ~Has(run, "solvedWrite", TRUE)
  /\ ~Has(run, "failedWrite", TRUE)

\* C31: while the run of a Problem is active, from its creation in processing to
\* the run's final write, only steps of that run change or delete the Problem:
\* the view increment, the bookmark toggle and the delete route leave it alone.
C31_NoOtherWriter ==
  [][\A p \in Runs :
       (Active(runs[p]) /\ Doc(problems', p) # Doc(problems, p))
         => runs'[p] # runs[p]]_vars

\* the run stopped in a crash after creating its Problem and before a final
\* status write was accepted
CrashedInFlight(run) ==
  /\ run.pc = "crashed"
  /\ Has(run, "create", TRUE)
  /\ ~Has(run, "solvedWrite", TRUE)
  /\ ~Has(run, "failedWrite", TRUE)

\* C32: when the process dies after the Problem was created and before the final
\* status write, the Problem is processing in every later state in which it
\* exists, whatever requests follow, and the stored quota counters of the user
\* are as they were before the run.
C32_StaysProcessing ==
  \A r \in Runs :
    CrashedInFlight(runs[r])
      => /\ r \in DOMAIN problems => problems[r].status = "processing"
         /\ users[runs[r].user] = NewUser(MaxLimit)

\* C32 witness: the process died after the Solution was created; the problem has
\* been viewed and is still processing, its Solution is stored.
C32_Witness ==
  /\ CrashedInFlight(runs[1])
  /\ Has(runs[1], "solution", TRUE)
  /\ 1 \in DOMAIN problems
  /\ 1 \in DOMAIN solutions
  /\ problems[1].status = "processing"
  /\ problems[1].views = 1
  /\ req.res = "200"

\* C38: a GET or a DELETE of a problem by a user who is neither its owner nor an
\* admin, and a bookmark toggle by anyone but the owner, admins included, is
\* answered with a rejection in its first step and changes no Problem and no
\* Solution.
C38_Rejected ==
  [][/\ (/\ req.pc \in {"idle", "done"}
         /\ req' # req
         /\ req'.id \in DOMAIN problems
         /\ problems[req'.id].user # req'.user
         /\ req'.kind = "bookmark" \/ ~req'.admin)
        => /\ req'.pc = "done"
           /\ req'.res \in {"403", "500 Error fetching problem",
                            "500 Error updating bookmark"}
           /\ problems' = problems
           /\ solutions' = solutions
     /\ (/\ del.pc = "idle"
         /\ del' # del
         /\ del'.id \in DOMAIN problems
         /\ problems[del'.id].user # del'.user
         /\ ~del'.admin)
        => /\ del'.pc = "done"
           /\ del'.res \in {"403", "500 Error deleting problem"}
           /\ problems' = problems
           /\ solutions' = solutions]_vars

\* C38 witness: an admin who does not own the problem asked to toggle its
\* bookmark and was answered 403, another user's DELETE was answered 403, and
\* the solved problem is stored with its Solution and without a bookmark.
C38_Witness ==
  /\ 1 \in DOMAIN problems
  /\ req.kind = "bookmark"
  /\ req.admin
  /\ req.user # problems[1].user
  /\ req.res = "403"
  /\ del.user # problems[1].user
  /\ ~del.admin
  /\ del.res = "403"
  /\ problems[1].status = "solved"
  /\ ~problems[1].bookmarked
  /\ 1 \in DOMAIN solutions

\* C39: the save of an authorized GET changes the views of its problem, by one,
\* and nothing else; the save of a bookmark toggle changes bookmarked and nothing
\* else; status, solution reference and the Solutions stay as the run wrote them,
\* also when the request was read before a write of the run and saved after it.
C39_OnlyItsField ==
  [][(req.pc = "save" /\ req' # req)
       => /\ solutions' = solutions
          /\ \A p \in Runs :
               \/ Doc(problems', p) = Doc(problems, p)
               \/ /\ p = req.id
                  /\ p \in DOMAIN problems
                  /\ p \in DOMAIN problems'
                  /\ problems'[p] =
                       IF req.kind = "get"
                       THEN [problems[p] EXCEPT !.views = @ + 1]
                       ELSE [problems[p] EXCEPT !.bookmarked = ~@]]_vars

\* C39 witness: a GET read the problem while it was processing and saved it after
\* the run had stored it solved; the problem is solved, references its Solution
\* and has one view.
C39_Witness ==
  /\ req.kind = "get"
  /\ req.res = "200"
  /\ req.base.status = "processing"
  /\ 1 \in DOMAIN problems
  /\ problems[1].status = "solved"
  /\ problems[1].solution = 1
  /\ problems[1].views = 1

(* --------------------- properties: deleting a user -------------------- *)

\* C40: once an admin's deletion of a user has been answered with success, no
\* Problem of that user is stored and no Solution of a Problem of that user,
\* also when a submission of that user was in flight during the deletion.
C40_NothingLeft ==
  del.res = "200 User deleted successfully"
    => /\ \A p \in DOMAIN problems : problems[p].user # del.id
       /\ \A s \in DOMAIN solutions : runs[s].user # del.id

====
